---- MODULE Spec2Model ----
(***************************************************************************)
(* ShopifyClient (shopify_client/client.py): the graphql() request with    *)
(* its tenacity retry wrapper, the pagination walker and the bulk          *)
(* operation calls, run against a nondeterministic remote shop.            *)
(***************************************************************************)
EXTENDS Integers, Sequences, FiniteSets, TLC

VARIABLES
    pc,       \* position of the caller's operation ("idle" before a call, "done" after)
    op,       \* the operation in progress and its arguments
    g,        \* the graphql() call in progress (tenacity state included)
    calls,    \* the requests issued so far by the operation, in order
    ret,      \* what the operation returned or raised
    results,  \* graphql_call_with_pagination: accumulated nodes
    cursor,   \* graphql_call_with_pagination: cursor for the next round (0 = None)
    remote,   \* the shop: the pages of its connection, its current bulk operation
    bulk,     \* locals of the bulk operation calls and of poll_until_complete
    tasks,    \* graphql() calls that run concurrently on one client
    sess,     \* the session's time and cost stores, the clock, and the
              \* calls that pass the cost limiter
    opts,     \* Options: the configured version and what its setter did last
    runs      \* run_bulk_operation_query calls that run concurrently against
              \* one shop, the shop's QUERY job and the thread of the event loop

vars == <<pc, op, g, calls, ret, results, cursor, remote, bulk, tasks, sess, opts, runs>>

----------------------------------------------------------------------------
\* Bounds of the model

\* HTTP attempts of one graphql() call the model follows (the code has no
\* limit): of the plain call, and of a call made by a compound operation
MaxAttempts == 6
MaxNestedAttempts == 2
\* entries of a response's "errors" list
MaxErrors == 2
\* pages of the remote connection
MaxPages == 3
\* edges of one page
MaxPageSize == 2

\* rounds of one pagination call
MaxRounds == MaxPages + 2
\* largest max_limit a caller passes
MaxLimit == 3
\* currentBulkOperation fetches of one poll_until_complete the model follows
MaxPolls == 3
\* rows a caller passes to run_bulk_operation_mutation
MaxRows == 1
MaxStr == 1
MaxPayloadRows == 2

\* graphql() calls of one task, and attempts of one such call
MaxTaskCalls == 2

MaxTaskAttempts == 3

\* the clock of the session: the length of a tick in milliseconds, and ticks
TickMs == 500

MaxTicks == 3

\* retried attempts and sleeps of one second the model follows in one
\* run_bulk_operation_query call of two that run concurrently
MaxRunFailures == 1

MaxRunPolls == 1

----------------------------------------------------------------------------
\* Program constants

\* Options.max_retries
max_retries == 2

\* faulty variant: 429 left out of the list
retry_on_status_without_429 == {502, 503, 504}

retry_on_status == {429, 502, 503, 504}

\* faulty variant: 402 left out of the list
shop_unavailable_status_without_402 == {404}

shop_unavailable_status == {402, 404}

\* the statuses the remote answers with: success, the statuses the client
\* names, and two error statuses it does not name
Statuses == {200, 401, 402, 404, 429, 500, 502, 503, 504}

\* RetriableException and its subclasses (retry_if_exception_type)
RetriableException == {"RetriableException", "ThrottledException", "InternalServerErrorException"}

----------------------------------------------------------------------------
\* Response bodies

\* extensions.code of one error entry; "None" is an entry without extensions.code
Codes == {"THROTTLED", "OTHER", "None"}

ErrorLists == UNION {[1..n -> Codes] : n \in 0..MaxErrors}

\* the singular "error" key: absent (or falsy), or an object with that code
ErrorKeys == {"absent"} \cup Codes

NoData == [kind |-> "none"]

\* errors_key: the body has an "errors" key; has_data: its "data" is not null
NoBody ==
    [errors_key |-> FALSE, errors |-> <<>>, error |-> "absent",
     has_data |-> FALSE, data |-> NoData]

NoPayload == [key |-> "none", errors |-> <<>>, error |-> "absent"]

\* faulty variant: entries without extensions.code add nothing to the set
get_error_codes_skipping_none(data) ==
    ({data.errors[i] : i \in DOMAIN data.errors}
        \cup (IF data.error # "absent" THEN {data.error} ELSE {})) \ {"None"}

\* utils.get_error_codes
get_error_codes(data) ==
    {data.errors[i] : i \in DOMAIN data.errors}
        \cup (IF data.error # "absent" THEN {data.error} ELSE {})

\* data.get("errors") or data.get("error")
ErrorPayload(data) ==
    IF data.errors # <<>>
    THEN [key |-> "errors", errors |-> data.errors, error |-> "absent"]
    ELSE [key |-> "error", errors |-> <<>>, error |-> data.error]

----------------------------------------------------------------------------
\* One attempt of graphql(): the body of the decorated function

\* a reply of the HTTP layer: net = FALSE is a network failure (no response),
\* json = FALSE a body that is not JSON
Reply(net, status, json, body) ==
    [net |-> net, status |-> status, json |-> json, body |-> body]

Raise(exc, payload) ==
    [outcome |-> exc, payload |-> payload, result |-> NoBody]

\* faulty variant: a 5xx status outside retry_on_status raises the retriable
\* InternalServerErrorException
graphql_attempt_retrying_5xx(r) ==
    IF ~r.net THEN Raise("httpx.TransportError", NoPayload)
    ELSE IF r.status \in retry_on_status
        THEN Raise("RetriableException", NoPayload)
    ELSE IF r.status \in shop_unavailable_status
        THEN Raise("ShopUnavailableException", NoPayload)
    ELSE IF r.status \in 500..599
        THEN Raise("InternalServerErrorException", NoPayload)
    ELSE IF r.status \notin 200..299
        THEN Raise("httpx.HTTPStatusError", NoPayload)
    ELSE IF ~r.json
        THEN Raise("json.JSONDecodeError", NoPayload)
    ELSE IF get_error_codes(r.body) # {}
        THEN IF "THROTTLED" \in get_error_codes(r.body)
             THEN Raise("ThrottledException", ErrorPayload(r.body))
             ELSE Raise("QueryError", ErrorPayload(r.body))
    ELSE [outcome |-> "ok", payload |-> NoPayload, result |-> r.body]

\* faulty variant: THROTTLED counts only when it is the only code
graphql_attempt_throttled_alone(r) ==
    IF ~r.net THEN Raise("httpx.TransportError", NoPayload)
    ELSE IF r.status \in retry_on_status
        THEN Raise("RetriableException", NoPayload)
    ELSE IF r.status \in shop_unavailable_status
        THEN Raise("ShopUnavailableException", NoPayload)
    ELSE IF r.status \notin 200..299
        THEN Raise("httpx.HTTPStatusError", NoPayload)
    ELSE IF ~r.json
        THEN Raise("json.JSONDecodeError", NoPayload)
    ELSE IF get_error_codes(r.body) # {}
        THEN IF get_error_codes(r.body) = {"THROTTLED"}
             THEN Raise("ThrottledException", ErrorPayload(r.body))
             ELSE Raise("QueryError", ErrorPayload(r.body))
    ELSE [outcome |-> "ok", payload |-> NoPayload, result |-> r.body]

graphql_attempt(r) ==
    IF ~r.net THEN Raise("httpx.TransportError", NoPayload)
    ELSE IF r.status \in retry_on_status
        THEN Raise("RetriableException", NoPayload)
    ELSE IF r.status \in shop_unavailable_status
        THEN Raise("ShopUnavailableException", NoPayload)
    ELSE IF r.status \notin 200..299
        THEN Raise("httpx.HTTPStatusError", NoPayload)
    ELSE IF ~r.json
        THEN Raise("json.JSONDecodeError", NoPayload)
    ELSE IF get_error_codes(r.body) # {}
        THEN IF "THROTTLED" \in get_error_codes(r.body)
             THEN Raise("ThrottledException", ErrorPayload(r.body))
             ELSE Raise("QueryError", ErrorPayload(r.body))
    ELSE [outcome |-> "ok", payload |-> NoPayload, result |-> r.body]

\* faulty variant: every exception is retried
retry_any_exception(a) == a.outcome # "ok"

\* faulty variant: only the class itself is retried, not its subclasses
retry_exact_type(a) == a.outcome = "RetriableException"

\* retry=retry_if_exception_type(RetriableException)
retry(a) == a.outcome \in RetriableException

\* the decorator passes no stop= argument: tenacity's default, stop_never
stop(attempt_number) == FALSE

Min(a, b) == IF a < b THEN a ELSE b

Max(a, b) == IF a > b THEN a ELSE b

RECURSIVE Pow2(_)
Pow2(n) == IF n <= 0 THEN 1 ELSE 2 * Pow2(n - 1)

\* faulty variant: the wait has no floor
wait_exponential_without_min(attempt_number) ==
    IF Pow2(attempt_number - 1) < 10 THEN Pow2(attempt_number - 1) ELSE 10

\* wait=wait_exponential(multiplier=1, min=4, max=10), in seconds
wait_exponential(attempt_number) ==
    Max(Max(0, 4), Min(1 * Pow2(attempt_number - 1), 10))

\* currentBulkOperation: null, or an operation with id, status and url
\* (url "" is a null url)
Null == [isnull |-> TRUE, id |-> "", status |-> "", url |-> "", errorCode |-> ""]

\* locals of the bulk calls: checked/seen are the currentBulkOperation that
\* is_bulk_job_running looked at, staged_upload_path the staged path of
\* run_bulk_operation_mutation, job_id/job_type the arguments of
\* poll_until_complete, sleeps its asyncio.sleep(1) calls, obs the statuses
\* its fetches saw, http_response the response it returns
NoBulk ==
    [checked |-> FALSE, seen |-> Null, staged_upload_path |-> "",
     job_id |-> "", job_type |-> "", sleeps |-> 0, obs |-> <<>>,
     http_response |-> [net |-> FALSE, status |-> 0, content |-> ""],
     mutations_upload_response |-> [net |-> FALSE, status |-> 0, content |-> ""]]

\* a GraphQL request: the operation's name, the cursor variable (0 = not
\* sent) and the type argument of currentBulkOperation
Req(name, cur, type) == [name |-> name, cursor |-> cur, type |-> type]

NoReply == [net |-> FALSE, status |-> 0, json |-> FALSE, body |-> NoBody]

\* attempts is tenacity's attempt_number, reply the response of the last
\* attempt; only_status records that every response of the call so far had a
\* status of retry_on_status
IdleCall ==
    [pc |-> "idle", req |-> Req("none", 0, ""), attempts |-> 0,
     sleeps |-> <<>>, outcome |-> "none", payload |-> NoPayload,
     result |-> NoBody, reply |-> NoReply, only_status |-> TRUE]

\* entering graphql(query, variables)
StartCall(req) == [IdleCall EXCEPT !.pc = "send", !.req = req]

----------------------------------------------------------------------------
\* The remote shop

\* a value of the response's data, as far as the walker looks at it: whether
\* it is a dict, its edges (the node of each edge), its pageInfo, its nodes,
\* those of its members that are dicts holding a "pageInfo" key, and whether
\* a member the search for the first of them looks at is a number, a boolean
\* or null
Value(isdict, has_edges, edges, has_pageInfo, hasNextPage, endCursor, has_nodes, nodes, children, noniterable) ==
    [isdict |-> isdict, has_edges |-> has_edges, edges |-> edges,
     has_pageInfo |-> has_pageInfo, hasNextPage |-> hasNextPage,
     endCursor |-> endCursor, has_nodes |-> has_nodes, nodes |-> nodes,
     children |-> children, noniterable |-> noniterable]

\* {"edges": [{"node": n}, ...], "pageInfo": {"hasNextPage": .., "endCursor": ..}}
Connection(edges, hasNextPage, endCursor) ==
    Value(TRUE, TRUE, edges, TRUE, hasNextPage, endCursor, FALSE, <<>>, <<>>, FALSE)

\* a value that is no dict: a string, a number, null
Scalar == Value(FALSE, FALSE, <<>>, FALSE, FALSE, 0, FALSE, <<>>, <<>>, FALSE)

\* a dict without edges, nodes or pageInfo, {"name": "x"} or {"id": 1}
Object(noniterable) ==
    Value(TRUE, FALSE, <<>>, FALSE, FALSE, 0, FALSE, <<>>, <<>>, noniterable)

RECURSIVE SumTo(_, _)
SumTo(sizes, i) == IF i <= 0 THEN 0 ELSE sizes[i] + SumTo(sizes, i - 1)

\* the pages of a connection with those page sizes: the nodes are numbered
\* 1, 2, ... in the order of the connection
PagesOf(sizes) ==
    [i \in DOMAIN sizes |->
        [k \in 1..sizes[i] |-> SumTo(sizes, i - 1) + k]]

\* the page the shop serves for a cursor: endCursor of page i is i, and a
\* request without cursor (0) gets page 1
PageAfter(c) ==
    IF c + 1 \in DOMAIN remote.pages
    THEN Connection(remote.pages[c + 1], c + 1 < Len(remote.pages), c + 1)
    ELSE Connection(<<>>, FALSE, 0)

\* the nodes of a second connection of one page
OtherNodes == <<100>>

\* the fields of the data of a response, in key order: the connection that
\* is paged through, a second connection, a dict that holds both as its
\* members (parent_int: after a member that is a number), a field that holds
\* the connection in the first response and is null in the later ones, and
\* values that are no connection
Layouts ==
    {<<"connection">>, <<"connection", "other">>, <<"other", "connection">>,
     <<"parent">>, <<"parent_int">>, <<"vanishing">>,
     <<"scalar", "null">>, <<"object">>, <<"object_int">>}

\* layouts whose connection has pages
Paged(layout) ==
    \E i \in DOMAIN layout :
        layout[i] \in {"connection", "parent", "parent_int", "vanishing"}

FieldOf(tag, c) ==
    CASE tag = "connection" -> PageAfter(c)
      [] tag = "other" -> Connection(OtherNodes, FALSE, 0)
      [] tag = "parent" ->
           Value(TRUE, FALSE, <<>>, FALSE, FALSE, 0, FALSE, <<>>,
                 <<PageAfter(c), Connection(OtherNodes, FALSE, 0)>>, FALSE)
      [] tag = "parent_int" ->
           Value(TRUE, FALSE, <<>>, FALSE, FALSE, 0, FALSE, <<>>,
                 <<PageAfter(c), Connection(OtherNodes, FALSE, 0)>>, TRUE)
      [] tag = "vanishing" -> IF c = 0 THEN PageAfter(c) ELSE Scalar
      [] tag = "object" -> Object(FALSE)
      [] tag = "object_int" -> Object(TRUE)
      [] OTHER -> Scalar

JobIds == {"gid1", "gid2"}

JobStatuses == {"CREATED", "RUNNING", "COMPLETED", "FAILED", "CANCELED"}

\* errorCode of a job: null unless the job failed
ErrorCodes(st) == IF st = "FAILED" THEN {"ACCESS_DENIED", "TIMEOUT"} ELSE {""}

\* the values of currentBulkOperation
BulkOperations ==
    {Null} \cup UNION {{[isnull |-> FALSE, id |-> i, status |-> st, url |-> "",
                         errorCode |-> e] :
                           i \in JobIds, e \in ErrorCodes(st)} :
                        st \in JobStatuses}
           \cup {[isnull |-> FALSE, id |-> i, status |-> "COMPLETED", url |-> "url1",
                  errorCode |-> ""] :
                    i \in JobIds}

\* the shop's current bulk operation when a call is made
InitialBulk ==
    {Null, [isnull |-> FALSE, id |-> "gid1", status |-> "RUNNING", url |-> "",
            errorCode |-> ""]}

\* what currentBulkOperation may report after the shop had operation b: the
\* shop moves its jobs on and other clients start jobs, but once there is an
\* operation it is never null again
LaterOf(b) == IF b.isnull THEN BulkOperations ELSE BulkOperations \ {Null}

\* stagedTargets[0] of stagedUploadsCreate: the url and the parameters, of
\* which the model keeps whether one is named "key", and its value
StagedTargets ==
    {[url |-> "upload1", has_key |-> FALSE, key |-> ""]}
        \cup {[url |-> "upload1", has_key |-> TRUE, key |-> k] : k \in {"path1", "path2"}}

\* userErrors of the mutations: empty or one error
UserErrors == {<<>>, <<"userError1">>}

\* data of the replies to a request
DataOf(req) ==
    CASE req.name = "paginated" ->
           {[kind |-> "fields",
             fields |-> [i \in DOMAIN remote.layout |->
                            FieldOf(remote.layout[i], req.cursor)]]}
      [] req.name = "currentBulkOperation" ->
           {[kind |-> "currentBulkOperation", currentBulkOperation |-> b] :
               b \in LaterOf(remote.bulk)}
      [] req.name \in {"bulkOperationRunQuery", "bulkOperationRunMutation"} ->
           {[kind |-> "run", userErrors |-> <<>>, id |-> i] : i \in JobIds}
               \cup {[kind |-> "run", userErrors |-> <<"userError1">>, id |-> ""]}
      [] req.name = "stagedUploadsCreate" ->
           {[kind |-> "staged", userErrors |-> <<>>, stagedTargets |-> <<t>>] :
               t \in StagedTargets}
               \cup {[kind |-> "staged", userErrors |-> <<"userError1">>,
                      stagedTargets |-> <<>>]}
      [] OTHER -> {[kind |-> "plain", id |-> d] : d \in {"d1", "d2"}}

\* the errors list and error key of a 200 reply; every shape for the plain
\* call, three of them for the requests of the compound operations
ErrorShapes(req) ==
    IF req.name = "shopName"
    THEN ErrorLists \X ErrorKeys
    ELSE {<<<<>>, "absent">>, <<<<"THROTTLED">>, "absent">>, <<<<"None">>, "absent">>}

\* the bodies a reply with that status may carry: only a 2xx body is parsed.
\* A body without errors holds data, or (a remote that breaks the GraphQL
\* envelope) null; the data of a body with errors is shown for the plain call
BodiesOf(status, req) ==
    IF status = 200
    THEN UNION {{[errors_key |-> e[1] # <<>>, errors |-> e[1], error |-> e[2],
                  has_data |-> TRUE, data |-> d] :
                     d \in IF (e[1] = <<>> /\ e[2] = "absent") \/ req.name = "shopName"
                           THEN DataOf(req) ELSE {NoData}} :
                e \in ErrorShapes(req)}
         \cup {[errors_key |-> k, errors |-> <<>>, error |-> "absent",
                has_data |-> FALSE, data |-> NoData] : k \in BOOLEAN}
    ELSE {[errors_key |-> e # <<>>, errors |-> e, error |-> "absent",
           has_data |-> FALSE, data |-> NoData] :
              e \in IF req.name = "shopName" THEN {<<>>, <<"None">>} ELSE {<<>>}}

\* the statuses of the replies to a request: all of them for the plain call,
\* one of each class for the requests of the compound operations
StatusesOf(req) ==
    IF req.name = "shopName" THEN Statuses ELSE {200, 404, 429, 500}

Replies(req) ==
    {Reply(FALSE, 0, FALSE, NoBody)}
        \cup {Reply(TRUE, 200, FALSE, NoBody)}
        \cup UNION {{Reply(TRUE, s, TRUE, b) : b \in BodiesOf(s, req)} :
                       s \in StatusesOf(req)}

----------------------------------------------------------------------------
\* Concurrent calls and the session

\* the coroutines that call graphql() on the same client
Tasks == 1..2

\* one task: calls_made counts the graphql() calls it started; attempts,
\* sleeps, outcome are the retry state of its call in progress; in_flight
\* counts its HTTP requests that await their response; log holds the
\* outcome of each attempt of the call
IdleTask ==
    [pc |-> "idle", calls_made |-> 0, attempts |-> 0, sleeps |-> <<>>,
     outcome |-> "none", in_flight |-> 0, log |-> <<>>]

IdleTasks == [t \in Tasks |-> IdleTask]

RECURSIVE SumAttempts(_, _)
SumAttempts(ts, S) ==
    IF S = {} THEN 0
    ELSE LET t == CHOOSE x \in S : TRUE
         IN  ts[t].attempts + SumAttempts(ts, S \ {t})

\* faulty variant: one retry state for all the calls of the client
attempt_number_shared(ts, t) == SumAttempts(ts, Tasks)

\* retry_state.attempt_number: tenacity's wrapper copies the retrying object
\* and makes a new RetryCallState for each call of graphql()
attempt_number(ts, t) == ts[t].attempts

\* the calls that pass the cost limiter on the same session
Callers == 1..2

\* faulty variant: the window counted in seconds
ONE_SECOND_in_seconds == 1000 \div 1000

\* one second in milliseconds
ONE_SECOND == 1000

\* cost points allowed per second
graphql_limit == 50

\* actualQueryCost of a response: under, at and over the budget
Costs == {10, 50, 100}

\* a response without extensions.cost.actualQueryCost
NoCost == 0 - 1

\* the retry-after header: absent, or integer seconds
NoHeader == 0 - 1

RetryAfter == {NoHeader, 1}

\* the statuses of the responses to the calls on the session
SessionStatuses == {200, 429, 500}

\* the delay computed from the throttle status of a THROTTLED response, in
\* milliseconds (the cost figures themselves are not modelled)
ThrottleDelays == {500}

\* an entry of a store: its value, the call that appended it (0: appended
\* directly, not by a call) and whether a limiter has read it since
Sample(v, by) == [v |-> v, by |-> by, seen |-> FALSE]

Last(s) == s[Len(s)]

Values(store) == [i \in DOMAIN store |-> store[i].v]

\* store.all(session), as the store is left: every entry has been read
all(store) == [i \in DOMAIN store |-> [store[i] EXCEPT !.seen = TRUE]]

\* store.append(session, value) by call c
append(store, v, c) == Append(store, Sample(v, c))

\* faulty variant: the reset keeps the last entry
reset_keeping_last(store) == IF store = <<>> THEN <<>> ELSE <<Last(store)>>

\* store.reset(session)
reset(store) == <<>>

\* the cost limiter: the delay in milliseconds before the next request, 0
\* for no delay; times and costs are the values read from the stores
should_delay(times, costs, current_time) ==
    IF times = <<>> \/ costs = <<>>
    THEN 0
    ELSE LET elapsed == current_time - Last(times)
         IN  IF elapsed >= ONE_SECOND THEN 0
             ELSE IF Last(costs) < graphql_limit THEN 0
             ELSE ONE_SECOND - elapsed

NoRetry == [retry |-> FALSE, delay |-> 0]

\* the retry decision on a response: status, retry-after header, whether
\* the body's error codes hold THROTTLED (and the delay its throttle status
\* gives), and the retries so far
retry_delay(status, retry_after, throttled, throttle_delay, retries) ==
    IF status \in retry_on_status /\ retries < max_retries
    THEN [retry |-> TRUE,
          delay |-> IF retry_after # NoHeader THEN retry_after * ONE_SECOND ELSE 0]
    ELSE IF status = 200 /\ throttled
    THEN [retry |-> TRUE, delay |-> throttle_delay]
    ELSE NoRetry

NoResponse ==
    [status |-> 0, retry_after |-> NoHeader, throttled |-> FALSE,
     throttle_delay |-> 0, cost |-> NoCost]

\* the responses to a call on the session: a 200 response reports a cost or
\* not, or is THROTTLED; the others may carry a retry-after header
Responses ==
    {[NoResponse EXCEPT !.status = 200, !.cost = c] : c \in Costs \cup {NoCost}}
      \cup {[NoResponse EXCEPT !.status = 200, !.throttled = TRUE,
                               !.throttle_delay = d] : d \in ThrottleDelays}
      \cup {[NoResponse EXCEPT !.status = st, !.retry_after = h] :
               st \in SessionStatuses \ {200}, h \in RetryAfter}

\* one such call: times, costs are what its limiter read from the stores,
\* delay the limiter's answer (-1: not asked), wake the time its sleep ends,
\* retries its retries so far, response and decision those of its last
\* attempt, alone whether no other call has run on the session since it began
IdleCaller ==
    [pc |-> "absent", times |-> <<>>, costs |-> <<>>, delay |-> 0 - 1,
     wake |-> 0, retries |-> 0, response |-> NoResponse, decision |-> NoRetry,
     alone |-> TRUE]

\* a session whose stores are empty, at time 0
IdleSession ==
    [time_store |-> <<>>, cost_store |-> <<>>, now |-> 0,
     callers |-> [c \in Callers |-> IdleCaller]]

\* a session with two times and a cost of 100 appended to its stores
SeededSession ==
    [IdleSession EXCEPT !.time_store = <<Sample(0, 0), Sample(0, 0)>>,
                        !.cost_store = <<Sample(100, 0)>>]

----------------------------------------------------------------------------
\* Options (options.py): the version and its setter. A version is the
\* sequence of its characters.

Digits == {"0", "1", "2", "3", "4", "5", "6", "7", "8", "9"}

DEFAULT_VERSION == <<"2", "0", "2", "0", "-", "0", "4">>

unstable == <<"u", "n", "s", "t", "a", "b", "l", "e">>

\* the first alternative of VERSION_PATTERN, [0-9]{4}-[0-9]{2}, matched from
\* the first character of value on
matches_date(value) ==
    /\ Len(value) >= 7
    /\ \A i \in {1, 2, 3, 4, 6, 7} : value[i] \in Digits
    /\ value[5] = "-"

\* the second alternative of VERSION_PATTERN, the literal unstable, matched
\* from the first character of value on
matches_unstable(value) ==
    /\ Len(value) >= Len(unstable)
    /\ SubSeq(value, 1, Len(unstable)) = unstable

\* bool(re.match(VERSION_PATTERN, value)): re.match looks for a match that
\* starts at the first character; the pattern has no end anchor
re_match(value) == matches_date(value) \/ matches_unstable(value)

\* the characters the values put in place of, before or after the
\* characters of a version
EditChars == {"7", "-", "x"}

\* s, s with one character replaced, s with a character before or after
\* it, and s without its last character
Edits(s) ==
    {s} \cup {[s EXCEPT ![i] = c] : i \in DOMAIN s, c \in EditChars}
        \cup {Append(s, c) : c \in EditChars}
        \cup {<<c>> \o s : c \in EditChars}
        \cup {SubSeq(s, 1, Len(s) - 1)}

\* the values the owner assigns to options.version
VersionValues ==
    Edits(DEFAULT_VERSION) \cup Edits(<<"2", "0", "2", "4", "-", "1", "0">>)
                           \cup Edits(unstable) \cup {<<>>}

\* Options(): value and outcome are the argument and the result of the last
\* assignment to version
DefaultOptions == [_version |-> DEFAULT_VERSION, value |-> <<>>, outcome |-> "none"]

----------------------------------------------------------------------------
\* run_bulk_operation_query called by two tasks against one shop

\* the coroutines that call run_bulk_operation_query() on the same client
Runners == 1..2

\* the thread is with the event loop, which resumes any task that is ready
NoTask == 0

\* one call: stage is the request it is at (check: the currentBulkOperation
\* query of is_bulk_job_running, submit: the bulkOperationRunQuery mutation,
\* poll: the currentBulkOperation query of poll_until_complete), reply the
\* reply in flight; seen is the operation its check was answered with,
\* submitted whether it issued the mutation, active_at_submit whether the
\* shop had a CREATED or RUNNING job at that moment; failures and polls
\* count its retried attempts and its sleeps of one second; asleep holds the
\* tasks that have been asleep since its request left, overlapped the kinds
\* of sleep of other tasks that one of its requests left and was answered in
IdleRunner ==
    [pc |-> "absent", wait |-> FALSE, stage |-> "none", reply |-> NoReply,
     checked |-> FALSE, seen |-> Null, submitted |-> FALSE,
     active_at_submit |-> FALSE, job_id |-> "", outcome |-> "none",
     failures |-> 0, polls |-> 0, asleep |-> {}, overlapped |-> {}]

\* job is the shop's current QUERY operation, created the number of jobs it
\* started, loop the task the thread is held by
IdleRuns ==
    [job |-> Null, created |-> 0, loop |-> NoTask,
     callers |-> [c \in Runners |-> IdleRunner]]

----------------------------------------------------------------------------
\* Actions

Init ==
    /\ pc = "idle"
    /\ op = [name |-> "none"]
    /\ g = IdleCall
    /\ calls = <<>>
    /\ ret = [outcome |-> "none"]
    /\ results = <<>>
    /\ cursor = 0
    /\ remote = [pages |-> <<>>, bulk |-> Null, layout |-> <<"connection">>]
    /\ bulk = NoBulk
    /\ tasks = IdleTasks
    /\ sess = IdleSession
    /\ opts = DefaultOptions
    /\ runs = IdleRuns

\* session.post and the classification of its response; on a retriable
\* exception tenacity computes the wait and the call goes to sleep
GraphqlAttempt ==
    /\ g.pc = "send"
    /\ g.attempts < (IF g.req.name = "shopName" THEN MaxAttempts ELSE MaxNestedAttempts)
    /\ \E r \in Replies(g.req) :
         LET a == graphql_attempt(r)
             n == g.attempts + 1
         IN  g' = [g EXCEPT !.attempts = n,
                            !.outcome = a.outcome,
                            !.payload = a.payload,
                            !.result = a.result,
                            !.reply = r,
                            !.only_status = @ /\ r.net /\ r.status \in retry_on_status,
                            !.pc = IF retry(a) /\ ~stop(n) THEN "sleep" ELSE "done"]
    /\ UNCHANGED <<pc, op, calls, ret, results, cursor, remote, bulk, tasks, sess, opts, runs>>

\* the backoff sleep of tenacity, then the next attempt
GraphqlBackoff ==
    /\ g.pc = "sleep"
    /\ g' = [g EXCEPT !.sleeps = Append(@, wait_exponential(g.attempts)),
                      !.pc = "send"]
    /\ UNCHANGED <<pc, op, calls, ret, results, cursor, remote, bulk, tasks, sess, opts, runs>>

\* the caller awaits client.graphql(query)
CallGraphql ==
    /\ pc = "idle"
    /\ pc' = "graphql"
    /\ op' = [name |-> "graphql"]
    /\ g' = StartCall(Req("shopName", 0, ""))
    /\ calls' = Append(calls, Req("shopName", 0, ""))
    /\ UNCHANGED <<ret, results, cursor, remote, bulk, tasks, sess, opts, runs>>

GraphqlReturn ==
    /\ pc = "graphql"
    /\ g.pc = "done"
    /\ pc' = "done"
    /\ ret' = [outcome |-> g.outcome, payload |-> g.payload, value |-> g.result]
    /\ UNCHANGED <<op, g, calls, results, cursor, remote, bulk, tasks, sess, opts, runs>>

----------------------------------------------------------------------------
\* graphql() called by two tasks on one client

\* task t awaits client.graphql(query): a new retry state
TaskCall(t) ==
    /\ tasks[t].pc \in {"idle", "done"}
    /\ tasks[t].calls_made < MaxTaskCalls
    /\ tasks' = [tasks EXCEPT ![t] = [IdleTask EXCEPT
                                        !.pc = "send",
                                        !.calls_made = tasks[t].calls_made + 1]]
    /\ UNCHANGED <<pc, op, g, calls, ret, results, cursor, remote, bulk, sess, opts, runs>>

\* await self.session.post(...): the request leaves and the task is suspended
TaskSend(t) ==
    /\ tasks[t].pc = "send"
    /\ tasks[t].attempts < MaxTaskAttempts
    /\ tasks' = [tasks EXCEPT ![t].in_flight = @ + 1, ![t].pc = "wait"]
    /\ UNCHANGED <<pc, op, g, calls, ret, results, cursor, remote, bulk, sess, opts, runs>>

\* the response arrives and is classified; tenacity decides on a retry
TaskReceive(t) ==
    /\ tasks[t].pc = "wait"
    /\ \E r \in Replies(Req("shopName", 0, "")) :
         LET a == graphql_attempt(r)
             n == attempt_number(tasks, t) + 1
         IN  tasks' = [tasks EXCEPT
                          ![t].in_flight = @ - 1,
                          ![t].attempts = @ + 1,
                          ![t].outcome = a.outcome,
                          ![t].log = Append(@, a.outcome),
                          ![t].pc = IF retry(a) /\ ~stop(n) THEN "sleep" ELSE "done"]
    /\ UNCHANGED <<pc, op, g, calls, ret, results, cursor, remote, bulk, sess, opts, runs>>

\* the backoff sleep of task t, then its next attempt
TaskBackoff(t) ==
    /\ tasks[t].pc = "sleep"
    /\ tasks' = [tasks EXCEPT
                    ![t].sleeps = Append(@, wait_exponential(attempt_number(tasks, t))),
                    ![t].pc = "send"]
    /\ UNCHANGED <<pc, op, g, calls, ret, results, cursor, remote, bulk, sess, opts, runs>>

----------------------------------------------------------------------------
\* Calls through the cost limiter on one session

Busy(c) == sess.callers[c].pc \notin {"absent", "done"}

\* call c begins: the pre-request actions run first
SessionCall(c) ==
    /\ sess.callers[c].pc = "absent"
    /\ sess' = [sess EXCEPT !.callers =
                  [d \in Callers |->
                     IF d = c
                     THEN [IdleCaller EXCEPT
                             !.pc = "read_times",
                             !.alone = \A e \in Callers \ {c} : ~Busy(e)]
                     ELSE IF Busy(d) THEN [sess.callers[d] EXCEPT !.alone = FALSE]
                     ELSE sess.callers[d]]]
    /\ UNCHANGED <<pc, op, g, calls, ret, results, cursor, remote, bulk, tasks, opts, runs>>

\* the limiter reads the time store
LimiterReadTimes(c) ==
    /\ sess.callers[c].pc = "read_times"
    /\ sess' = [sess EXCEPT !.time_store = all(@),
                            !.callers[c].times = Values(sess.time_store),
                            !.callers[c].pc = "read_costs"]
    /\ UNCHANGED <<pc, op, g, calls, ret, results, cursor, remote, bulk, tasks, opts, runs>>

\* the limiter reads the cost store and evaluates what it read
LimiterReadCosts(c) ==
    /\ sess.callers[c].pc = "read_costs"
    /\ LET costs == Values(sess.cost_store)
           delay == should_delay(sess.callers[c].times, costs, sess.now)
       IN  sess' = [sess EXCEPT !.cost_store = all(@),
                                !.callers[c].costs = costs,
                                !.callers[c].delay = delay,
                                !.callers[c].wake = sess.now + delay,
                                !.callers[c].pc =
                                    IF delay > 0 THEN "limiter_sleep" ELSE "reset_times"]
    /\ UNCHANGED <<pc, op, g, calls, ret, results, cursor, remote, bulk, tasks, opts, runs>>

\* the pre-request sleep of the limiter is over
LimiterSleep(c) ==
    /\ sess.callers[c].pc = "limiter_sleep"
    /\ sess.now >= sess.callers[c].wake
    /\ sess' = [sess EXCEPT !.callers[c].pc = "reset_times"]
    /\ UNCHANGED <<pc, op, g, calls, ret, results, cursor, remote, bulk, tasks, opts, runs>>

\* the limiter resets the history: the time store
LimiterResetTimes(c) ==
    /\ sess.callers[c].pc = "reset_times"
    /\ sess' = [sess EXCEPT !.time_store = reset(@),
                            !.callers[c].pc = "reset_costs"]
    /\ UNCHANGED <<pc, op, g, calls, ret, results, cursor, remote, bulk, tasks, opts, runs>>

\* the limiter resets the history: the cost store; the request is sent
LimiterResetCosts(c) ==
    /\ sess.callers[c].pc = "reset_costs"
    /\ sess' = [sess EXCEPT !.cost_store = reset(@),
                            !.callers[c].times = <<>>,
                            !.callers[c].costs = <<>>,
                            !.callers[c].delay = 0 - 1,
                            !.callers[c].pc = "send"]
    /\ UNCHANGED <<pc, op, g, calls, ret, results, cursor, remote, bulk, tasks, opts, runs>>

\* the response arrives: the retry decision and the post-request actions
SessionReceive(c) ==
    /\ sess.callers[c].pc = "send"
    /\ \E r \in Responses :
         LET d == retry_delay(r.status, r.retry_after, r.throttled,
                              r.throttle_delay, sess.callers[c].retries)
         IN  /\ r.throttled => sess.callers[c].retries < max_retries
             /\ sess' = [sess EXCEPT
                            !.callers[c].response = r,
                            !.callers[c].decision = d,
                            !.callers[c].wake = sess.now + d.delay,
                            !.callers[c].pc =
                                IF r.cost # NoCost THEN "record_time"
                                ELSE IF d.retry THEN "backoff"
                                ELSE "done"]
    /\ UNCHANGED <<pc, op, g, calls, ret, results, cursor, remote, bulk, tasks, opts, runs>>

\* the delay of the retry is over: the call is made again
SessionBackoff(c) ==
    /\ sess.callers[c].pc = "backoff"
    /\ sess.now >= sess.callers[c].wake
    /\ sess' = [sess EXCEPT !.callers[c].retries = @ + 1,
                            !.callers[c].response = NoResponse,
                            !.callers[c].decision = NoRetry,
                            !.callers[c].pc = "read_times"]
    /\ UNCHANGED <<pc, op, g, calls, ret, results, cursor, remote, bulk, tasks, opts, runs>>

\* the post-request action records the time of the call
RecordTime(c) ==
    /\ sess.callers[c].pc = "record_time"
    /\ sess' = [sess EXCEPT !.time_store = append(@, sess.now, c),
                            !.callers[c].pc = "record_cost"]
    /\ UNCHANGED <<pc, op, g, calls, ret, results, cursor, remote, bulk, tasks, opts, runs>>

\* the post-request action records the cost of the call, which returns
RecordCost(c) ==
    /\ sess.callers[c].pc = "record_cost"
    /\ sess' = [sess EXCEPT
                   !.cost_store = append(@, sess.callers[c].response.cost, c),
                   !.callers[c].pc = "done"]
    /\ UNCHANGED <<pc, op, g, calls, ret, results, cursor, remote, bulk, tasks, opts, runs>>

\* time passes
Tick ==
    /\ sess.now < MaxTicks * TickMs
    /\ sess' = [sess EXCEPT !.now = @ + TickMs]
    /\ UNCHANGED <<pc, op, g, calls, ret, results, cursor, remote, bulk, tasks, opts, runs>>

----------------------------------------------------------------------------
\* graphql_call_with_pagination

NoLimit == [set |-> FALSE, n |-> 0]

\* max_limit: None, or an int >= 0
Limits == {NoLimit} \cup {[set |-> TRUE, n |-> n] : n \in 0..MaxLimit}

\* Python truth value of max_limit
Truthy(max_limit) == max_limit.set /\ max_limit.n # 0

\* next((val for _, val in value.items() if "pageInfo" in val), value)
select_child(value) ==
    IF value.children # <<>> THEN value.children[1] ELSE value

\* faulty variant: the page's nodes replace the accumulated ones
process_value_overwriting(acc, v) ==
    IF ~v.isdict THEN acc
    ELSE IF v.has_edges
         THEN [results |-> v.edges,
               cursor |-> IF v.has_pageInfo /\ v.hasNextPage THEN v.endCursor ELSE 0]
         ELSE acc

\* "pageInfo" in val raises TypeError when val is a number, a boolean or None
in_raises(v) == v.isdict /\ v.noniterable

\* the body of "for value in data.values()" on one value
process_value(acc, v) ==
    IF ~v.isdict THEN acc
    ELSE LET value == select_child(v) IN
         IF value.has_edges
         THEN [results |-> acc.results \o value.edges,
               cursor |-> IF value.has_pageInfo /\ value.hasNextPage
                          THEN value.endCursor ELSE 0]
         ELSE IF value.has_nodes
         THEN [results |-> acc.results \o value.nodes, cursor |-> 0]
         ELSE acc

RECURSIVE process_values(_, _)
process_values(acc, fields) ==
    IF fields = <<>> THEN acc
    ELSE process_values(process_value(acc, Head(fields)), Tail(fields))

\* the max_limit check after the loop over the values
limit_hit(max_limit, res) == Truthy(max_limit) /\ Len(res) >= max_limit.n

truncate(max_limit, res) == SubSeq(res, 1, Min(max_limit.n, Len(res)))

\* the variables the caller passes: the value of each key, 0 for a key that is absent
Variables == {[first |-> 2, cursor |-> 0]}

\* faulty variant: the cursor is written into the caller's own mapping
current_variables_aliased(variables, cur) ==
    LET written == IF cur # 0 THEN [variables EXCEPT !.cursor = cur] ELSE variables
    IN  [sent |-> written, variables |-> written]

\* current_variables = {**variables}, and current_variables["cursor"] = cursor
\* if cursor is not None: the mapping that is sent, and the caller's after it
current_variables(variables, cur) ==
    [sent |-> IF cur # 0 THEN [variables EXCEPT !.cursor = cur] ELSE variables,
     variables |-> variables]

\* the caller awaits client.graphql_call_with_pagination(query, variables,
\* max_limit) on a shop whose connection has those pages
CallPaginate ==
    /\ pc = "idle"
    /\ \E layout \in Layouts :
         IF Paged(layout)
         THEN \E n \in 1..MaxPages : \E sizes \in [1..n -> 0..MaxPageSize] :
                remote' = [remote EXCEPT !.pages = PagesOf(sizes), !.layout = layout]
         ELSE remote' = [remote EXCEPT !.pages = <<>>, !.layout = layout]
    /\ \E m \in Limits, v \in Variables :
         op' = [name |-> "graphql_call_with_pagination", max_limit |-> m,
                given |-> v, variables |-> v, sent |-> <<>>]
    /\ results' = <<>>
    /\ cursor' = 0
    /\ pc' = "page_request"
    /\ UNCHANGED <<g, calls, ret, bulk, tasks, sess, opts, runs>>

\* top of the while loop: current_variables and the graphql call
PaginateRequest ==
    /\ pc = "page_request"
    /\ Len(calls) < MaxRounds
    /\ LET cv == current_variables(op.variables, cursor)
       IN  /\ g' = StartCall(Req("paginated", cv.sent.cursor, ""))
           /\ calls' = Append(calls, Req("paginated", cv.sent.cursor, ""))
           /\ op' = [op EXCEPT !.variables = cv.variables,
                               !.sent = Append(@, cv.sent)]
    /\ pc' = "page_response"
    /\ UNCHANGED <<ret, results, cursor, remote, bulk, tasks, sess, opts, runs>>

\* rest of the loop body: an exception of graphql() propagates; otherwise the
\* values are processed, then the max_limit check and the cursor check
PaginateResponse ==
    /\ pc = "page_response"
    /\ g.pc = "done"
    /\ IF g.outcome # "ok"
       THEN /\ pc' = "done"
            /\ ret' = [outcome |-> g.outcome, payload |-> g.payload, value |-> <<>>]
            /\ UNCHANGED <<results, cursor>>
       ELSE IF ~g.result.has_data
       THEN \* data is None: data.values() raises
            /\ pc' = "done"
            /\ ret' = [outcome |-> "AttributeError", payload |-> NoPayload, value |-> <<>>]
            /\ UNCHANGED <<results, cursor>>
       ELSE IF \E i \in DOMAIN g.result.data.fields : in_raises(g.result.data.fields[i])
       THEN /\ pc' = "done"
            /\ ret' = [outcome |-> "TypeError", payload |-> NoPayload, value |-> <<>>]
            /\ UNCHANGED <<results, cursor>>
       ELSE LET acc == process_values([results |-> results, cursor |-> cursor],
                                      g.result.data.fields)
            IN  IF limit_hit(op.max_limit, acc.results)
                THEN /\ results' = truncate(op.max_limit, acc.results)
                     /\ cursor' = acc.cursor
                     /\ pc' = "done"
                     /\ ret' = [outcome |-> "ok", payload |-> NoPayload,
                                value |-> results']
                ELSE /\ results' = acc.results
                     /\ cursor' = acc.cursor
                     /\ IF acc.cursor = 0
                        THEN /\ pc' = "done"
                             /\ ret' = [outcome |-> "ok", payload |-> NoPayload,
                                        value |-> results']
                        ELSE /\ pc' = "page_request"
                             /\ UNCHANGED ret
    /\ UNCHANGED <<op, g, calls, remote, bulk, tasks, sess, opts, runs>>

----------------------------------------------------------------------------
\* Bulk operations

\* an exception leaves the operation
Raises(exc, payload) ==
    /\ pc' = "done"
    /\ ret' = [outcome |-> exc, payload |-> payload, value |-> <<>>]

Returns(value) ==
    /\ pc' = "done"
    /\ ret' = [outcome |-> "ok", payload |-> NoPayload, value |-> value]

\* faulty variant: the exception is raised without the errors
UserErrorPayload_empty(user_errors) ==
    [key |-> "userErrors", errors |-> <<>>, error |-> "absent"]

UserErrorPayload(user_errors) ==
    [key |-> "userErrors", errors |-> user_errors, error |-> "absent"]

JobTypes == {"QUERY", "MUTATION"}

\* faulty variant: a CREATED job does not count as running
is_bulk_job_running_only_running(response) ==
    /\ ~response.data.currentBulkOperation.isnull
    /\ response.data.currentBulkOperation.status = "RUNNING"

\* faulty variant: any operation that is not null counts as running
is_bulk_job_running_not_null(response) ==
    ~response.data.currentBulkOperation.isnull

\* is_bulk_job_running, after its graphql call returned response
is_bulk_job_running(response) ==
    LET current_bulk_operation == response.data.currentBulkOperation
    IN  /\ ~current_bulk_operation.isnull
        /\ current_bulk_operation.status \in {"CREATED", "RUNNING"}

\* what the download URL and the staged upload URL answer
HttpReplies ==
    {[net |-> FALSE, status |-> 0, content |-> ""],
     [net |-> TRUE, status |-> 404, content |-> ""]}
        \cup {[net |-> TRUE, status |-> 200, content |-> c] : c \in {"jsonl1", "jsonl2"}}

\* HttpxResponse(status_code=204, content=b"")
NoContent == [net |-> TRUE, status |-> 204, content |-> ""]

\* faulty variant: the bulk calls pass the response on as it is
PollResult_raw(http_response) == http_response

\* the result of poll_until_complete as its caller passes it on:
\* jsonlines.Reader(BytesIO(http_response.content)) in the bulk calls
PollResult(http_response) ==
    IF op.name = "poll_until_complete"
    THEN http_response
    ELSE [reader |-> http_response.content]

\* faulty variant: the test of data_url is inverted
poll_decision_inverted_url(current_bulk_operation, job_id) ==
    IF current_bulk_operation.isnull \/ current_bulk_operation.id # job_id
    THEN "not found"
    ELSE IF current_bulk_operation.status \in {"CREATED", "RUNNING"}
    THEN "sleep"
    ELSE IF current_bulk_operation.status = "COMPLETED"
    THEN IF current_bulk_operation.url = "" THEN "download" ELSE "no data"
    ELSE "failed"

\* faulty variant: the error names the status alone
JobFailed_status_only(status, bulk_check_response) ==
    [key |-> "failed", errors |-> <<>>, error |-> status, response |-> NoBody]

\* ValueError(f"Job failed with status {status} [{bulk_check_response}]")
JobFailed(status, bulk_check_response) ==
    [key |-> "failed", errors |-> <<>>, error |-> status,
     response |-> bulk_check_response]

\* faulty variant: a completed job is always downloaded
poll_decision_always_download(current_bulk_operation, job_id) ==
    IF current_bulk_operation.isnull \/ current_bulk_operation.id # job_id
    THEN "not found"
    ELSE IF current_bulk_operation.status \in {"CREATED", "RUNNING"}
    THEN "sleep"
    ELSE IF current_bulk_operation.status = "COMPLETED"
    THEN "download"
    ELSE "failed"

\* faulty variant: the id of the fetched operation is not compared
poll_decision_without_identity(current_bulk_operation, job_id) ==
    IF current_bulk_operation.isnull
    THEN "not found"
    ELSE IF current_bulk_operation.status \in {"CREATED", "RUNNING"}
    THEN "sleep"
    ELSE IF current_bulk_operation.status = "COMPLETED"
    THEN IF current_bulk_operation.url # "" THEN "download" ELSE "no data"
    ELSE "failed"

\* poll_until_complete: what the checks on the fetched operation lead to
poll_decision(current_bulk_operation, job_id) ==
    IF current_bulk_operation.isnull \/ current_bulk_operation.id # job_id
    THEN "not found"
    ELSE IF current_bulk_operation.status \in {"CREATED", "RUNNING"}
    THEN "sleep"
    ELSE IF current_bulk_operation.status = "COMPLETED"
    THEN IF current_bulk_operation.url # "" THEN "download" ELSE "no data"
    ELSE "failed"

\* the interpreter's limit on nested calls (sys.getrecursionlimit()), which
\* the recursive call of poll_until_complete runs into
recursion_limit == 1000

\* the polls explored before the recursion limit
DeepPolls == recursion_limit - MaxPolls

\* the caller awaits client.poll_until_complete(job_id, job_type)
CallPoll ==
    /\ pc = "idle"
    /\ \E b \in InitialBulk : remote' = [remote EXCEPT !.bulk = b]
    /\ \E j \in JobIds, t \in JobTypes :
         /\ op' = [name |-> "poll_until_complete", job_id |-> j, job_type |-> t]
         /\ bulk' = [bulk EXCEPT !.job_id = j, !.job_type = t]
    /\ pc' = "poll_fetch"
    /\ UNCHANGED <<g, calls, ret, results, cursor, tasks, sess, opts, runs>>

\* poll_until_complete: the currentBulkOperation query
PollFetch ==
    /\ pc = "poll_fetch"
    /\ \/ Len(bulk.obs) < MaxPolls
       \/ Len(bulk.obs) \in DeepPolls..recursion_limit
    /\ g' = StartCall(Req("currentBulkOperation", 0, bulk.job_type))
    /\ calls' = Append(calls, Req("currentBulkOperation", 0, bulk.job_type))
    /\ pc' = "poll_response"
    /\ UNCHANGED <<op, ret, results, cursor, remote, bulk, tasks, sess, opts, runs>>

\* poll_until_complete: the checks on the fetched operation
PollResponse ==
    /\ pc = "poll_response"
    /\ g.pc = "done"
    /\ IF g.outcome # "ok"
       THEN Raises(g.outcome, g.payload) /\ UNCHANGED <<bulk, calls>>
       ELSE IF ~g.result.has_data
       THEN Raises("TypeError", NoPayload) /\ UNCHANGED <<bulk, calls>>
       ELSE LET current_bulk_operation == g.result.data.currentBulkOperation
                status == current_bulk_operation.status
                decision == poll_decision(current_bulk_operation, bulk.job_id)
            IN  /\ bulk' = [bulk EXCEPT
                               !.obs = Append(@, [id |-> current_bulk_operation.id,
                                                  status |-> status]),
                               !.http_response =
                                   IF decision = "no data" THEN NoContent ELSE @]
                /\ CASE decision = "not found" ->
                          /\ Raises("ValueError",
                                    [key |-> "not found", errors |-> <<>>,
                                     error |-> bulk.job_id])
                          /\ UNCHANGED calls
                     [] decision = "sleep" ->
                          /\ pc' = "poll_sleep"
                          /\ UNCHANGED <<ret, calls>>
                     [] decision = "download" ->
                          /\ pc' = "poll_download"
                          /\ calls' = Append(calls,
                                 [name |-> "download",
                                  url |-> current_bulk_operation.url])
                          /\ UNCHANGED ret
                     [] decision = "no data" ->
                          /\ Returns(PollResult(NoContent))
                          /\ UNCHANGED calls
                     [] OTHER ->
                          /\ Raises("ValueError", JobFailed(status, g.result))
                          /\ UNCHANGED calls
    /\ UNCHANGED <<op, g, results, cursor, remote, tasks, sess, opts, runs>>

\* poll_until_complete: asyncio.sleep(1), then the recursive call. Every
\* earlier poll_until_complete still awaits its callee, so that after n sleeps
\* n frames are on the stack and the call adds one (the frames of the caller
\* and of the event loop, which only lower the number, are left out)
PollSleep ==
    /\ pc = "poll_sleep"
    /\ bulk' = [bulk EXCEPT !.sleeps = @ + 1]
    /\ IF bulk'.sleeps + 1 > recursion_limit
       THEN Raises("RecursionError", NoPayload)
       ELSE pc' = "poll_fetch" /\ UNCHANGED ret
    /\ UNCHANGED <<op, g, calls, results, cursor, remote, tasks, sess, opts, runs>>

\* poll_until_complete: the answer to client.get(data_url), raise_for_status
PollDownload ==
    /\ pc = "poll_download"
    /\ \E r \in HttpReplies :
         IF ~r.net
         THEN Raises("httpx.TransportError", NoPayload) /\ UNCHANGED bulk
         ELSE IF r.status \notin 200..299
         THEN Raises("httpx.HTTPStatusError", NoPayload) /\ UNCHANGED bulk
         ELSE /\ bulk' = [bulk EXCEPT !.http_response = r]
              /\ Returns(PollResult(r))
    /\ UNCHANGED <<op, g, calls, results, cursor, remote, tasks, sess, opts, runs>>

\* the caller awaits client.is_bulk_job_running(job_type): the
\* currentBulkOperation query
CallIsBulkJobRunning ==
    /\ pc = "idle"
    /\ \E b \in InitialBulk : remote' = [remote EXCEPT !.bulk = b]
    /\ \E t \in JobTypes :
         /\ op' = [name |-> "is_bulk_job_running", job_type |-> t]
         /\ g' = StartCall(Req("currentBulkOperation", 0, t))
         /\ calls' = Append(calls, Req("currentBulkOperation", 0, t))
    /\ pc' = "running_check"
    /\ UNCHANGED <<ret, results, cursor, bulk, tasks, sess, opts, runs>>

\* is_bulk_job_running: the test of the fetched operation and the return
IsBulkJobRunningReturn ==
    /\ pc = "running_check"
    /\ g.pc = "done"
    /\ IF g.outcome # "ok"
       THEN Raises(g.outcome, g.payload) /\ UNCHANGED bulk
       ELSE IF ~g.result.has_data
       THEN Raises("TypeError", NoPayload) /\ UNCHANGED bulk
       ELSE /\ bulk' = [bulk EXCEPT !.checked = TRUE,
                                    !.seen = g.result.data.currentBulkOperation]
            /\ Returns(is_bulk_job_running(g.result))
    /\ UNCHANGED <<op, g, calls, results, cursor, remote, tasks, sess, opts, runs>>

\* the caller awaits client.run_bulk_operation_query(sub_query, wait=..):
\* the call starts with is_bulk_job_running("QUERY")
CallBulkQuery ==
    /\ pc = "idle"
    /\ \E b \in InitialBulk : remote' = [remote EXCEPT !.bulk = b]
    /\ \E w \in BOOLEAN : op' = [name |-> "run_bulk_operation_query", wait |-> w]
    /\ g' = StartCall(Req("currentBulkOperation", 0, "QUERY"))
    /\ calls' = Append(calls, Req("currentBulkOperation", 0, "QUERY"))
    /\ pc' = "query_check"
    /\ UNCHANGED <<ret, results, cursor, bulk, tasks, sess, opts, runs>>

\* run_bulk_operation_query: the answer of is_bulk_job_running, then the
\* bulkOperationRunQuery mutation
BulkQueryChecked ==
    /\ pc = "query_check"
    /\ g.pc = "done"
    /\ IF g.outcome # "ok"
       THEN Raises(g.outcome, g.payload) /\ UNCHANGED <<g, calls, bulk>>
       ELSE IF ~g.result.has_data
       THEN Raises("TypeError", NoPayload) /\ UNCHANGED <<g, calls, bulk>>
       ELSE /\ bulk' = [bulk EXCEPT !.checked = TRUE,
                                    !.seen = g.result.data.currentBulkOperation]
            /\ IF is_bulk_job_running(g.result)
               THEN /\ Raises("BulkQueryInProgress", NoPayload)
                    /\ UNCHANGED <<g, calls>>
               ELSE /\ g' = StartCall(Req("bulkOperationRunQuery", 0, ""))
                    /\ calls' = Append(calls, Req("bulkOperationRunQuery", 0, ""))
                    /\ pc' = "query_submit"
                    /\ UNCHANGED ret
    /\ UNCHANGED <<op, results, cursor, remote, tasks, sess, opts, runs>>

\* run_bulk_operation_query: the answer of bulkOperationRunQuery
BulkQuerySubmitted ==
    /\ pc = "query_submit"
    /\ g.pc = "done"
    /\ IF g.outcome # "ok"
       THEN Raises(g.outcome, g.payload) /\ UNCHANGED bulk
       ELSE IF ~g.result.has_data
       THEN Raises("TypeError", NoPayload) /\ UNCHANGED bulk
       ELSE IF g.result.data.userErrors # <<>>
       THEN Raises("QueryError", UserErrorPayload(g.result.data.userErrors))
            /\ UNCHANGED bulk
       ELSE IF op.wait
       THEN /\ bulk' = [bulk EXCEPT !.job_id = g.result.data.id,
                                    !.job_type = "QUERY"]
            /\ pc' = "poll_fetch"
            /\ UNCHANGED ret
       ELSE Returns(g.result.data.id) /\ UNCHANGED bulk
    /\ UNCHANGED <<op, g, calls, results, cursor, remote, tasks, sess, opts, runs>>

\* the key argument: None, or a string
Keys == {[isnone |-> TRUE, name |-> ""], [isnone |-> FALSE, name |-> "input"]}

\* the characters of a string of a row: a letter and the newline
Chars == {"a", "LF"}

Strings == UNION {[1..n -> Chars] : n \in 0..MaxStr}

\* a row is a dict with one string member, {"title": s}
Rows == {[title |-> str] : str \in Strings}

\* the rows argument where the whole bulk call is followed
RowLists == UNION {[1..n -> {[title |-> <<"a">>], [title |-> <<"LF">>]}] : n \in 0..MaxRows}

\* the rows argument where only the payload is followed
PayloadRowLists == UNION {[1..n -> Rows] : n \in 0..MaxPayloadRows}

\* faulty variant: the rows are wrapped whatever the key
wrap_rows_always(rows, key) ==
    [i \in DOMAIN rows |-> [wrapped |-> TRUE, key |-> key.name, row |-> rows[i]]]

\* rows = [{key: row} for row in rows] when key is not None
wrap_rows(rows, key) ==
    [i \in DOMAIN rows |->
        IF key.isnone
        THEN [wrapped |-> FALSE, key |-> "", row |-> rows[i]]
        ELSE [wrapped |-> TRUE, key |-> key.name, row |-> rows[i]]]

\* json.dumps of a string: quotes around the characters, the newline escaped
escape(c) == IF c = "LF" THEN <<"BS", "n">> ELSE <<c>>

RECURSIVE escape_all(_)
escape_all(str) ==
    IF str = <<>> THEN <<>> ELSE escape(Head(str)) \o escape_all(Tail(str))

\* json.dumps of a row, and of a row under the key: a sequence of tokens
dumps_row(row) == <<"{", "title", ":", "Q">> \o escape_all(row.title) \o <<"Q", "}">>

dumps(obj) ==
    IF obj.wrapped
    THEN <<"{", obj.key, ":">> \o dumps_row(obj.row) \o <<"}">>
    ELSE dumps_row(obj.row)

\* jsonlines.Writer(fp).write_all(rows): each object on a line of its own
RECURSIVE write_all(_)
write_all(rows) ==
    IF rows = <<>> THEN <<>>
    ELSE dumps(Head(rows)) \o <<"LF">> \o write_all(Tail(rows))

\* the lines of a file: the tokens up to each newline
RECURSIVE lines_of(_, _)
lines_of(file, line) ==
    IF file = <<>> THEN (IF line = <<>> THEN <<>> ELSE <<line>>)
    ELSE IF Head(file) = "LF" THEN <<line>> \o lines_of(Tail(file), <<>>)
    ELSE lines_of(Tail(file), Append(line, Head(file)))

\* json.loads of the characters between the quotes
RECURSIVE unescape(_)
unescape(tokens) ==
    IF tokens = <<>> THEN <<>>
    ELSE IF Head(tokens) = "BS" /\ Len(tokens) >= 2 /\ tokens[2] = "n"
    THEN <<"LF">> \o unescape(Tail(Tail(tokens)))
    ELSE <<Head(tokens)>> \o unescape(Tail(tokens))

\* json.loads of a line: a row, or a row under a key
loads(line) ==
    IF Len(line) >= 6 /\ line[2] = "title"
    THEN [wrapped |-> FALSE, key |-> "",
          row |-> [title |-> unescape(SubSeq(line, 5, Len(line) - 2))]]
    ELSE IF Len(line) >= 10
    THEN [wrapped |-> TRUE, key |-> line[2],
          row |-> [title |-> unescape(SubSeq(line, 8, Len(line) - 3))]]
    ELSE [wrapped |-> FALSE, key |-> "", row |-> [title |-> <<"invalid">>]]

\* jsonlines.Reader over the file: the object of each line
read_all(file) ==
    LET lines == lines_of(file, <<>>)
    IN  [i \in DOMAIN lines |-> loads(lines[i])]

\* "if not response.get("data"): raise ValueError(response["errors"])"
NoDataError(response) ==
    IF response.errors_key
    THEN Raises("ValueError", [key |-> "errors", errors |-> response.errors,
                               error |-> "absent"])
    ELSE Raises("KeyError", NoPayload)

\* faulty variant: the upload url is taken for the staged path
staged_upload_path_from_url(stage_mutations_data) == stage_mutations_data.url

\* staged_upload_path = data["key"][0]: the value of the parameter named key
staged_upload_path(stage_mutations_data) == stage_mutations_data.key

\* the caller awaits client.run_bulk_operation_mutation(query, rows, key, wait):
\* the call starts with the stagedUploadsCreate mutation
CallBulkMutation ==
    /\ pc = "idle"
    /\ \E b \in InitialBulk : remote' = [remote EXCEPT !.bulk = b]
    /\ \E rows \in RowLists, key \in Keys, w \in BOOLEAN :
         op' = [name |-> "run_bulk_operation_mutation", rows |-> rows,
                key |-> key, wait |-> w]
    /\ g' = StartCall(Req("stagedUploadsCreate", 0, ""))
    /\ calls' = Append(calls, Req("stagedUploadsCreate", 0, ""))
    /\ pc' = "mutation_stage"
    /\ UNCHANGED <<ret, results, cursor, bulk, tasks, sess, opts, runs>>

\* run_bulk_operation_mutation: the answer of stagedUploadsCreate, the
\* encoding of the rows and the POST to the staged URL
BulkMutationStaged ==
    /\ pc = "mutation_stage"
    /\ g.pc = "done"
    /\ IF g.outcome # "ok"
       THEN Raises(g.outcome, g.payload) /\ UNCHANGED <<calls, bulk>>
       ELSE IF ~g.result.has_data
       THEN NoDataError(g.result) /\ UNCHANGED <<calls, bulk>>
       ELSE IF g.result.data.stagedTargets = <<>>
       THEN Raises("IndexError", NoPayload) /\ UNCHANGED <<calls, bulk>>
       ELSE LET stage_mutations_data == g.result.data.stagedTargets[1]
            IN  IF ~stage_mutations_data.has_key
                THEN Raises("KeyError", NoPayload) /\ UNCHANGED <<calls, bulk>>
                ELSE /\ bulk' = [bulk EXCEPT !.staged_upload_path =
                                        staged_upload_path(stage_mutations_data)]
                     /\ calls' = Append(calls,
                            [name |-> "upload", url |-> stage_mutations_data.url,
                             file |-> write_all(wrap_rows(op.rows, op.key))])
                     /\ pc' = "mutation_upload"
                     /\ UNCHANGED ret
    /\ UNCHANGED <<op, g, results, cursor, remote, tasks, sess, opts, runs>>

\* run_bulk_operation_mutation: the answer to the upload, raise_for_status,
\* then the bulkOperationRunMutation mutation
BulkMutationUploaded ==
    /\ pc = "mutation_upload"
    /\ \E r \in HttpReplies :
         /\ bulk' = [bulk EXCEPT !.mutations_upload_response = r]
         /\ IF ~r.net
            THEN Raises("httpx.TransportError", NoPayload) /\ UNCHANGED <<g, calls>>
            ELSE IF r.status \notin 200..299
            THEN Raises("httpx.HTTPStatusError", NoPayload) /\ UNCHANGED <<g, calls>>
            ELSE
              /\ g' = StartCall(Req("bulkOperationRunMutation", 0, ""))
              /\ calls' = Append(calls,
                     [name |-> "bulkOperationRunMutation",
                      stagedUploadPath |-> bulk.staged_upload_path])
              /\ pc' = "mutation_submit"
              /\ UNCHANGED ret
    /\ UNCHANGED <<op, results, cursor, remote, tasks, sess, opts, runs>>

\* run_bulk_operation_mutation: the answer of bulkOperationRunMutation
BulkMutationSubmitted ==
    /\ pc = "mutation_submit"
    /\ g.pc = "done"
    /\ IF g.outcome # "ok"
       THEN Raises(g.outcome, g.payload) /\ UNCHANGED bulk
       ELSE IF ~g.result.has_data
       THEN NoDataError(g.result) /\ UNCHANGED bulk
       ELSE IF g.result.data.userErrors # <<>>
       THEN Raises("ValueError", UserErrorPayload(g.result.data.userErrors))
            /\ UNCHANGED bulk
       ELSE IF ~op.wait
       THEN Returns(g.result.data.id) /\ UNCHANGED bulk
       ELSE /\ bulk' = [bulk EXCEPT !.job_id = g.result.data.id,
                                    !.job_type = "MUTATION"]
            /\ pc' = "poll_fetch"
            /\ UNCHANGED ret
    /\ UNCHANGED <<op, g, calls, results, cursor, remote, tasks, sess, opts, runs>>

----------------------------------------------------------------------------
\* run_bulk_operation_query called by two tasks against one shop

Active(job) == ~job.isnull /\ job.status \in {"CREATED", "RUNNING"}

\* the id the shop gives the next job
NextJobId(created) == IF created = 0 THEN "gid1" ELSE "gid2"

\* a 200 reply that holds data
DataReply(data) ==
    Reply(TRUE, 200, TRUE,
          [errors_key |-> FALSE, errors |-> <<>>, error |-> "absent",
           has_data |-> TRUE, data |-> data])

\* the shop's answer to a request: currentBulkOperation reports the current
\* job; bulkOperationRunQuery starts a job unless one is CREATED or RUNNING,
\* and answers with userErrors then
ShopReply(stage, job, created) ==
    IF stage = "submit"
    THEN IF Active(job)
         THEN DataReply([kind |-> "run", userErrors |-> <<"userError1">>, id |-> ""])
         ELSE DataReply([kind |-> "run", userErrors |-> <<>>, id |-> NextJobId(created)])
    ELSE DataReply([kind |-> "currentBulkOperation", currentBulkOperation |-> job])

\* a reply with a status that graphql() retries
BusyReply == Reply(TRUE, 429, TRUE, NoBody)

Sleeping(c) == runs.callers[c].pc \in {"backoff", "poll_sleep"}

\* faulty variant: time.sleep(..) keeps the thread in the sleeping task
time_sleep(c) == c

\* await asyncio.sleep(..), in poll_until_complete and in the wait of
\* tenacity: task c is suspended and the thread goes back to the event loop
asyncio_sleep(c) == NoTask

\* the thread can run task c
Runnable(c) == runs.loop \in {NoTask, c}

\* a task awaits client.run_bulk_operation_query(sub_query, wait=..)
RunCall(c) ==
    /\ runs.callers[c].pc = "absent"
    /\ Runnable(c)
    /\ \E w \in BOOLEAN :
         runs' = [runs EXCEPT !.callers[c] =
                    [IdleRunner EXCEPT !.pc = "send", !.wait = w, !.stage = "check"]]
    /\ UNCHANGED <<pc, op, g, calls, ret, results, cursor, remote, bulk, tasks, sess, opts>>

\* await self.session.post(...): the request leaves, the shop serves it and
\* task c is suspended until the reply arrives
RunSend(c) ==
    /\ runs.callers[c].pc = "send"
    /\ Runnable(c)
    /\ LET me == runs.callers[c]
           served == ShopReply(me.stage, runs.job, runs.created)
           starts == me.stage = "submit" /\ ~Active(runs.job)
       IN  \E r \in {served} \cup (IF me.failures < MaxRunFailures
                                   THEN {BusyReply} ELSE {}) :
             runs' = [runs EXCEPT
                        !.job = IF starts /\ r = served
                                THEN [isnull |-> FALSE, id |-> NextJobId(runs.created),
                                      status |-> "CREATED", url |-> "", errorCode |-> ""]
                                ELSE @,
                        !.created = IF starts /\ r = served THEN @ + 1 ELSE @,
                        !.callers[c].pc = "wait",
                        !.callers[c].reply = r,
                        !.callers[c].submitted = @ \/ me.stage = "submit",
                        !.callers[c].active_at_submit =
                            IF me.stage = "submit" THEN Active(runs.job) ELSE @,
                        !.callers[c].asleep = {d \in Runners \ {c} : Sleeping(d)}]
    /\ UNCHANGED <<pc, op, g, calls, ret, results, cursor, remote, bulk, tasks, sess, opts>>

\* the reply arrives: graphql() classifies it and tenacity decides on a
\* retry; then the code after the await of the stage runs up to the next await
RunReceive(c) ==
    /\ runs.callers[c].pc = "wait"
    /\ Runnable(c)
    /\ LET me == runs.callers[c]
           a == graphql_attempt(me.reply)
           seen_sleeps == {runs.callers[d].pc : d \in me.asleep}
           got == [me EXCEPT !.reply = NoReply, !.asleep = {},
                             !.overlapped = @ \cup seen_sleeps]
           raise(exc) == [got EXCEPT !.pc = "done", !.outcome = exc]
           next ==
             IF retry(a) /\ ~stop(me.failures + 1)
             THEN [got EXCEPT !.pc = "backoff", !.failures = @ + 1]
             ELSE IF a.outcome # "ok" THEN raise(a.outcome)
             ELSE IF me.stage = "check"
             THEN LET checked == [got EXCEPT !.checked = TRUE,
                                             !.seen = a.result.data.currentBulkOperation]
                  IN  IF is_bulk_job_running(a.result)
                      THEN [checked EXCEPT !.pc = "done",
                                           !.outcome = "BulkQueryInProgress"]
                      ELSE [checked EXCEPT !.pc = "send", !.stage = "submit"]
             ELSE IF me.stage = "submit"
             THEN IF a.result.data.userErrors # <<>> THEN raise("QueryError")
                  ELSE IF me.wait
                  THEN [got EXCEPT !.job_id = a.result.data.id,
                                   !.pc = "send", !.stage = "poll"]
                  ELSE [got EXCEPT !.job_id = a.result.data.id,
                                   !.pc = "done", !.outcome = "ok"]
             ELSE LET d == poll_decision(a.result.data.currentBulkOperation, me.job_id)
                  IN  IF d = "not found" THEN raise("ValueError")
                      ELSE IF d = "sleep" THEN [got EXCEPT !.pc = "poll_sleep"]
                      ELSE IF d = "no data" THEN [got EXCEPT !.pc = "done", !.outcome = "ok"]
                      ELSE raise("ValueError")
       IN  runs' = [runs EXCEPT !.callers[c] = next,
                                !.loop = IF next.pc \in {"backoff", "poll_sleep"}
                                         THEN asyncio_sleep(c) ELSE @]
    /\ UNCHANGED <<pc, op, g, calls, ret, results, cursor, remote, bulk, tasks, sess, opts>>

\* the sleep of task c is over: the next attempt of graphql(), or the
\* recursive call of poll_until_complete
RunWake(c) ==
    /\ Sleeping(c)
    /\ Runnable(c)
    /\ runs.callers[c].pc = "poll_sleep" => runs.callers[c].polls < MaxRunPolls
    /\ runs' = [runs EXCEPT
                  !.loop = NoTask,
                  !.callers = [d \in Runners |->
                     IF d = c
                     THEN [runs.callers[c] EXCEPT
                             !.pc = "send",
                             !.polls = IF runs.callers[c].pc = "poll_sleep"
                                       THEN @ + 1 ELSE @]
                     ELSE [runs.callers[d] EXCEPT !.asleep = @ \ {c}]]]
    /\ UNCHANGED <<pc, op, g, calls, ret, results, cursor, remote, bulk, tasks, sess, opts>>

\* the shop moves its job on
ShopAdvance ==
    /\ Active(runs.job)
    /\ runs' = [runs EXCEPT !.job.status =
                  IF @ = "CREATED" THEN "RUNNING" ELSE "COMPLETED"]
    /\ UNCHANGED <<pc, op, g, calls, ret, results, cursor, remote, bulk, tasks, sess, opts>>

----------------------------------------------------------------------------
\* Options.version

\* options.version = value
SetVersion ==
    /\ \E value \in VersionValues :
         opts' = IF ~re_match(value)
                 THEN [opts EXCEPT !.value = value, !.outcome = "ValueError"]
                 ELSE [_version |-> value, value |-> value, outcome |-> "ok"]
    /\ UNCHANGED <<pc, op, g, calls, ret, results, cursor, remote, bulk, tasks, sess, runs>>

Next ==
    \/ CallGraphql
    \/ GraphqlAttempt
    \/ GraphqlBackoff
    \/ GraphqlReturn
    \/ CallPaginate
    \/ PaginateRequest
    \/ PaginateResponse
    \/ CallPoll
    \/ PollFetch
    \/ PollResponse
    \/ PollSleep
    \/ PollDownload
    \/ CallIsBulkJobRunning
    \/ IsBulkJobRunningReturn
    \/ CallBulkQuery
    \/ BulkQueryChecked
    \/ BulkQuerySubmitted
    \/ CallBulkMutation
    \/ BulkMutationStaged
    \/ BulkMutationUploaded
    \/ BulkMutationSubmitted

Spec == Init /\ [][Next]_vars

\* the plain graphql() call alone
NextGraphql ==
    \/ CallGraphql
    \/ GraphqlAttempt
    \/ GraphqlBackoff
    \/ GraphqlReturn

SpecGraphql == Init /\ [][NextGraphql]_vars

\* graphql_call_with_pagination alone
NextPagination ==
    \/ CallPaginate
    \/ PaginateRequest
    \/ PaginateResponse
    \/ GraphqlAttempt
    \/ GraphqlBackoff

SpecPagination == Init /\ [][NextPagination]_vars

\* the bulk operation calls alone
NextBulk ==
    \/ CallPoll
    \/ PollFetch
    \/ PollResponse
    \/ PollSleep
    \/ PollDownload
    \/ CallIsBulkJobRunning
    \/ IsBulkJobRunningReturn
    \/ CallBulkQuery
    \/ BulkQueryChecked
    \/ BulkQuerySubmitted
    \/ CallBulkMutation
    \/ BulkMutationStaged
    \/ BulkMutationUploaded
    \/ BulkMutationSubmitted
    \/ GraphqlAttempt
    \/ GraphqlBackoff

SpecBulk == Init /\ [][NextBulk]_vars

\* two tasks that call graphql() on the same client
NextConcurrent ==
    \/ \E t \in Tasks : TaskCall(t)
    \/ \E t \in Tasks : TaskSend(t)
    \/ \E t \in Tasks : TaskReceive(t)
    \/ \E t \in Tasks : TaskBackoff(t)

SpecConcurrent == Init /\ [][NextConcurrent]_vars

\* two calls on a session whose stores are empty or hold earlier entries
InitSession ==
    /\ pc = "idle"
    /\ op = [name |-> "none"]
    /\ g = IdleCall
    /\ calls = <<>>
    /\ ret = [outcome |-> "none"]
    /\ results = <<>>
    /\ cursor = 0
    /\ remote = [pages |-> <<>>, bulk |-> Null, layout |-> <<"connection">>]
    /\ bulk = NoBulk
    /\ tasks = IdleTasks
    /\ sess \in {IdleSession, SeededSession}
    /\ opts = DefaultOptions
    /\ runs = IdleRuns

NextSession ==
    \/ \E c \in Callers : SessionCall(c)
    \/ \E c \in Callers : LimiterReadTimes(c)
    \/ \E c \in Callers : LimiterReadCosts(c)
    \/ \E c \in Callers : LimiterSleep(c)
    \/ \E c \in Callers : LimiterResetTimes(c)
    \/ \E c \in Callers : LimiterResetCosts(c)
    \/ \E c \in Callers : SessionReceive(c)
    \/ \E c \in Callers : SessionBackoff(c)
    \/ \E c \in Callers : RecordTime(c)
    \/ \E c \in Callers : RecordCost(c)
    \/ Tick

SpecSession == InitSession /\ [][NextSession]_vars

\* a job that keeps running
StillRunning ==
    [isnull |-> FALSE, id |-> "gid1", status |-> "RUNNING", url |-> "",
     errorCode |-> ""]

StillRunningBody ==
    [errors_key |-> FALSE, errors |-> <<>>, error |-> "absent", has_data |-> TRUE,
     data |-> [kind |-> "currentBulkOperation",
               currentBulkOperation |-> StillRunning]]

\* poll_until_complete("gid1", "QUERY") after DeepPolls fetches that all saw
\* the job RUNNING, each answered at the first attempt, and as many sleeps
InitPollDeep ==
    /\ pc = "poll_fetch"
    /\ op = [name |-> "poll_until_complete", job_id |-> "gid1", job_type |-> "QUERY"]
    /\ g = [StartCall(Req("currentBulkOperation", 0, "QUERY")) EXCEPT
               !.pc = "done", !.attempts = 1, !.outcome = "ok",
               !.result = StillRunningBody,
               !.reply = Reply(TRUE, 200, TRUE, StillRunningBody),
               !.only_status = FALSE]
    /\ calls = [i \in 1..DeepPolls |-> Req("currentBulkOperation", 0, "QUERY")]
    /\ ret = [outcome |-> "none"]
    /\ results = <<>>
    /\ cursor = 0
    /\ remote = [pages |-> <<>>, bulk |-> StillRunning, layout |-> <<"connection">>]
    /\ bulk = [NoBulk EXCEPT !.job_id = "gid1", !.job_type = "QUERY",
                             !.sleeps = DeepPolls,
                             !.obs = [i \in 1..DeepPolls |->
                                        [id |-> "gid1", status |-> "RUNNING"]]]
    /\ tasks = IdleTasks
    /\ sess = IdleSession
    /\ opts = DefaultOptions
    /\ runs = IdleRuns

NextPollDeep ==
    \/ PollFetch
    \/ PollResponse
    \/ PollSleep
    \/ PollDownload
    \/ GraphqlAttempt
    \/ GraphqlBackoff

SpecPollDeep == InitPollDeep /\ [][NextPollDeep]_vars

\* run_bulk_operation_mutation up to the upload, entered with rows of
\* PayloadRowLists: the state after CallBulkMutation
InitPayload ==
    /\ pc = "mutation_stage"
    /\ \E rows \in PayloadRowLists, key \in Keys, w \in BOOLEAN :
         op = [name |-> "run_bulk_operation_mutation", rows |-> rows,
               key |-> key, wait |-> w]
    /\ g = StartCall(Req("stagedUploadsCreate", 0, ""))
    /\ calls = <<Req("stagedUploadsCreate", 0, "")>>
    /\ ret = [outcome |-> "none"]
    /\ results = <<>>
    /\ cursor = 0
    /\ remote = [pages |-> <<>>, bulk |-> Null, layout |-> <<"connection">>]
    /\ bulk = NoBulk
    /\ tasks = IdleTasks
    /\ sess = IdleSession
    /\ opts = DefaultOptions
    /\ runs = IdleRuns

NextPayload ==
    \/ GraphqlAttempt
    \/ GraphqlBackoff
    \/ BulkMutationStaged

SpecPayload == InitPayload /\ [][NextPayload]_vars

\* assignments to options.version alone
NextOptions == SetVersion

SpecOptions == Init /\ [][NextOptions]_vars

\* two run_bulk_operation_query calls on one client, and the shop
NextRuns ==
    \/ \E c \in Runners : RunCall(c)
    \/ \E c \in Runners : RunSend(c)
    \/ \E c \in Runners : RunReceive(c)
    \/ \E c \in Runners : RunWake(c)
    \/ ShopAdvance

SpecRuns == Init /\ [][NextRuns]_vars

----------------------------------------------------------------------------
\* Claims about graphql()

\* a response was received by the last attempt of the call
Responded == g.attempts >= 1 /\ g.reply.net

\* that response is a parsed 200 response
Parsed200 == Responded /\ g.reply.status = 200 /\ g.reply.json

\* its errors list or its error key holds the code THROTTLED
HasThrottled ==
    \/ \E i \in DOMAIN g.reply.body.errors : g.reply.body.errors[i] = "THROTTLED"
    \/ g.reply.body.error = "THROTTLED"

\* it carries a non-empty errors list or an error key
HasErrors == g.reply.body.errors # <<>> \/ g.reply.body.error # "absent"

\* the call was not ended by the last response: it sleeps or re-sends
Retrying == g.pc \in {"sleep", "send"}

\* C1: when every response of one graphql() call has a status in
\* {429, 502, 503, 504}, the request is re-sent at most max_retries times.
C1_ResentAtMostMaxRetries ==
    (g.pc # "idle" /\ g.only_status) => g.attempts - 1 <= max_retries

\* C2: a 200 response whose codes include THROTTLED raises ThrottledException
\* and is retried; one with any other non-empty errors/error payload (entries
\* without a code included) raises QueryError with that payload and ends the
\* call; one without errors is returned as the parsed body.
C2_Classification ==
    Parsed200 =>
        /\ HasThrottled =>
             /\ g.outcome = "ThrottledException"
             /\ Retrying
        /\ (HasErrors /\ ~HasThrottled) =>
             /\ g.outcome = "QueryError"
             /\ g.pc = "done"
             /\ g.payload.errors = g.reply.body.errors
             /\ g.reply.body.errors = <<>> => g.payload.error = g.reply.body.error
        /\ ~HasErrors =>
             /\ g.outcome = "ok"
             /\ g.pc = "done"
             /\ g.result = g.reply.body

C2_Witness ==
    /\ Parsed200
    /\ g.reply.body.errors = <<"None">>
    /\ g.outcome = "QueryError"
    /\ g.pc = "done"

\* C3: a response with status 402 or 404 ends the call with
\* ShopUnavailableException; no sleep and no request follows it, so a call
\* whose first response is 402 or 404 made exactly one request and no sleep.
C3_ShopUnavailableFailsFast ==
    /\ [](   (Responded /\ g.reply.status \in {402, 404})
          => /\ g.pc = "done"
             /\ g.outcome = "ShopUnavailableException"
             /\ Len(g.sleeps) = g.attempts - 1
             /\ (op.name = "graphql" /\ pc = "done")
                    => ret.outcome = "ShopUnavailableException")
    /\ [][   (Responded /\ g.reply.status \in {402, 404})
          => (g'.attempts = g.attempts /\ g'.sleeps = g.sleeps)]_vars

C3_Witness ==
    /\ op.name = "graphql"
    /\ pc = "done"
    /\ g.reply.status = 404
    /\ g.attempts = 1
    /\ g.sleeps = <<>>

\* C4: a retryable failure (429/502/503/504 or THROTTLED) is not surfaced:
\* the call goes on to the next attempt; an error-free 200 response ends the
\* call, which returns exactly the parsed body of that response.
C4_RetryThenReturn ==
    /\ (Responded /\ g.reply.status \in {429, 502, 503, 504}) => Retrying
    /\ (Parsed200 /\ HasThrottled) => Retrying
    /\ (Parsed200 /\ ~HasErrors) =>
          /\ g.pc = "done"
          /\ g.result = g.reply.body
          /\ (op.name = "graphql" /\ pc = "done") =>
                ret = [outcome |-> "ok", payload |-> NoPayload, value |-> g.reply.body]

C4_Witness ==
    /\ op.name = "graphql"
    /\ pc = "done"
    /\ g.attempts = 3
    /\ ret.outcome = "ok"
    /\ ret.value.data = [kind |-> "plain", id |-> "d2"]

\* C5: every outcome of graphql() is a parsed result or an error of the
\* taxonomy; the transport error type is counted in the taxonomy here.
C5_OnlyTaxonomyErrors ==
    (op.name = "graphql" /\ pc = "done") =>
        ret.outcome \in {"ok", "RetriableException", "ThrottledException",
                         "ShopUnavailableException", "QueryError",
                         "httpx.TransportError"}

----------------------------------------------------------------------------
\* Claims about graphql_call_with_pagination

RECURSIVE ConcatPages(_, _)
\* the nodes of the first n pages, in page order
ConcatPages(pages, n) ==
    IF n <= 0 THEN <<>> ELSE ConcatPages(pages, n - 1) \o pages[n]

\* a pagination call has returned a list
Paginated ==
    /\ op.name = "graphql_call_with_pagination"
    /\ pc = "done"
    /\ ret.outcome = "ok"

\* C6: with max_limit=None over a connection of n pages the call returns the
\* nodes of all pages in page order, none dropped or duplicated, after
\* exactly n graphql requests (one per page, each with the cursor of the
\* page before).
C6_AllPagesInOrder ==
    (Paginated /\ ~op.max_limit.set /\ remote.layout = <<"connection">>) =>
        /\ ret.value = ConcatPages(remote.pages, Len(remote.pages))
        /\ calls = [i \in 1..Len(remote.pages) |-> Req("paginated", i - 1, "")]

C6_Witness ==
    /\ Paginated
    /\ remote.layout = <<"connection">>
    /\ ~op.max_limit.set
    /\ Len(remote.pages) = 3
    /\ ret.value = <<1, 2, 3, 4>>

\* C7: with a max_limit that is set, the result is the first max_limit nodes
\* (never more than max_limit), and no request is issued once the pages
\* fetched hold max_limit nodes.
C7_AtMostMaxLimit ==
    (Paginated /\ op.max_limit.set /\ remote.layout = <<"connection">>) =>
        /\ Len(ret.value) <= op.max_limit.n
        /\ \A j \in 1..(Len(calls) - 1) :
              Len(ConcatPages(remote.pages, j)) < op.max_limit.n

----------------------------------------------------------------------------
\* Claims about the bulk operations

CallNames == {calls[i].name : i \in DOMAIN calls}

\* the currentBulkOperation that the answer of graphql() holds
Fetched == g.result.data.currentBulkOperation

\* C8: when currentBulkOperation(type: QUERY) reports CREATED or RUNNING,
\* run_bulk_operation_query raises BulkQueryInProgress and never issues the
\* bulkOperationRunQuery mutation.
C8_QueryInProgress ==
    op.name = "run_bulk_operation_query" =>
        /\ calls[1] = Req("currentBulkOperation", 0, "QUERY")
        /\ (pc = "query_check" /\ g.pc = "done" /\ g.outcome = "ok"
              /\ g.result.has_data /\ Fetched.status \in {"CREATED", "RUNNING"})
             => calls = <<Req("currentBulkOperation", 0, "QUERY")>>
        /\ (bulk.checked /\ bulk.seen.status \in {"CREATED", "RUNNING"})
             => /\ pc = "done"
                /\ ret.outcome = "BulkQueryInProgress"
                /\ calls = <<Req("currentBulkOperation", 0, "QUERY")>>

C8_Witness ==
    /\ op.name = "run_bulk_operation_query"
    /\ bulk.checked
    /\ bulk.seen.status = "CREATED"
    /\ ret.outcome = "BulkQueryInProgress"

\* C9: run_bulk_operation_mutation first checks
\* currentBulkOperation(type: MUTATION); when the shop has a MUTATION job
\* CREATED or RUNNING it raises BulkQueryInProgress and issues no staged
\* upload request, no upload and no bulkOperationRunMutation.
C9_MutationChecksFirst ==
    (/\ op.name = "run_bulk_operation_mutation"
     /\ ~remote.bulk.isnull
     /\ remote.bulk.status \in {"CREATED", "RUNNING"})
    => /\ calls[1] = Req("currentBulkOperation", 0, "MUTATION")
       /\ CallNames \cap {"stagedUploadsCreate", "upload",
                          "bulkOperationRunMutation"} = {}
       /\ pc = "done" => ret.outcome = "BulkQueryInProgress"

Polled ==
    /\ bulk.obs # <<>>
    /\ pc \in {"poll_sleep", "poll_download", "done"}
    /\ g.req.name = "currentBulkOperation"
    /\ g.pc = "done"
    /\ g.outcome = "ok"
    /\ g.result.has_data

\* C11: when the fetched job is the requested one, COMPLETED, and its url is
\* null or empty, poll_until_complete returns an empty 204 response (the bulk
\* calls: a reader over empty content) and no download request is made.
C11_CompletedWithoutUrl ==
    (/\ Polled
     /\ ~Fetched.isnull /\ Fetched.id = bulk.job_id
     /\ Fetched.status = "COMPLETED" /\ Fetched.url = "")
    => /\ pc = "done"
       /\ ret.outcome = "ok"
       /\ bulk.http_response = NoContent
       /\ ret.value = (IF op.name = "poll_until_complete"
                       THEN NoContent ELSE [reader |-> ""])
       /\ "download" \notin CallNames

C11_Witness ==
    /\ op.name = "poll_until_complete"
    /\ Polled
    /\ Fetched.id = bulk.job_id
    /\ Fetched.status = "COMPLETED" /\ Fetched.url = ""
    /\ bulk.sleeps = 1
    /\ ret.outcome = "ok"
    /\ ret.value.status = 204

\* C12: on every poll, a fetched currentBulkOperation that is null or has
\* another id ends the call with the job-not-found ValueError; every
\* operation that was slept on, downloaded or returned has the id job_id.
C12_IdentityOnEveryPoll ==
    LET n == Len(bulk.obs) IN
    /\ (Polled /\ (Fetched.isnull \/ Fetched.id # bulk.job_id))
         => /\ pc = "done"
            /\ ret.outcome = "ValueError"
            /\ ret.payload = [key |-> "not found", errors |-> <<>>,
                              error |-> bulk.job_id]
            /\ bulk.sleeps = n - 1
            /\ "download" \notin CallNames
    /\ \A i \in 1..(n - 1) : bulk.obs[i].id = bulk.job_id
    /\ (n >= 1 /\ (\/ pc \in {"poll_sleep", "poll_download"}
                    \/ bulk.sleeps = n
                    \/ "download" \in CallNames
                    \/ (pc = "done" /\ ret.outcome = "ok")))
         => bulk.obs[n].id = bulk.job_id

C12_Witness ==
    /\ Polled
    /\ Len(bulk.obs) = 2
    /\ bulk.obs[1].id = bulk.job_id
    /\ bulk.obs[2].id # bulk.job_id
    /\ ~Fetched.isnull
    /\ Fetched.status = "COMPLETED"
    /\ ret.outcome = "ValueError"

\* C13: a fetched job of the requested id whose status is none of CREATED,
\* RUNNING, COMPLETED ends the call with the job-failed ValueError, built
\* from the status and the whole response (which holds errorCode); nothing
\* is returned and no download is made.
C13_OtherStatusFails ==
    (/\ Polled
     /\ ~Fetched.isnull /\ Fetched.id = bulk.job_id
     /\ Fetched.status \notin {"CREATED", "RUNNING", "COMPLETED"})
    => /\ pc = "done"
       /\ ret.outcome = "ValueError"
       /\ ret.payload.key = "failed"
       /\ ret.payload.error = Fetched.status
       /\ ret.payload.response = g.result
       /\ ret.payload.response.data.currentBulkOperation.errorCode = Fetched.errorCode
       /\ ret.value = <<>>
       /\ "download" \notin CallNames

C13_Witness ==
    /\ Polled
    /\ Fetched.id = bulk.job_id
    /\ Fetched.status = "FAILED"
    /\ Fetched.errorCode = "TIMEOUT"
    /\ bulk.sleeps = 1
    /\ ret.outcome = "ValueError"
    /\ ret.payload.response.data.currentBulkOperation.errorCode = "TIMEOUT"

\* one of the two bulk calls, and the type its polls name
BulkCall == op.name \in {"run_bulk_operation_query", "run_bulk_operation_mutation"}

TypeOf == IF op.name = "run_bulk_operation_query" THEN "QUERY" ELSE "MUTATION"

PollStates == {"poll_fetch", "poll_response", "poll_sleep", "poll_download"}

\* the answer of graphql() to the request of that name has been looked at
Answered(name, at) ==
    /\ g.req.name = name
    /\ g.pc = "done"
    /\ g.outcome = "ok"
    /\ g.result.has_data
    /\ pc # at

\* C14: when bulkOperationRunQuery answers with userErrors,
\* run_bulk_operation_query raises QueryError carrying exactly those errors
\* and never polls; otherwise the id of the answer is returned (wait=False)
\* or becomes the job_id of the poll, which keeps it until the call ends.
C14_UserErrorsOrJobId ==
    /\ []((op.name = "run_bulk_operation_query"
            /\ Answered("bulkOperationRunQuery", "query_submit"))
          => IF g.result.data.userErrors # <<>>
             THEN /\ pc = "done"
                  /\ ret.outcome = "QueryError"
                  /\ ret.payload = [key |-> "userErrors",
                                    errors |-> g.result.data.userErrors,
                                    error |-> "absent"]
                  /\ bulk.obs = <<>>
                  /\ calls = <<Req("currentBulkOperation", 0, "QUERY"),
                               Req("bulkOperationRunQuery", 0, "")>>
             ELSE IF op.wait
             THEN /\ pc = "poll_fetch"
                  /\ bulk.job_id = g.result.data.id
             ELSE /\ pc = "done"
                  /\ ret.outcome = "ok"
                  /\ ret.value = g.result.data.id)
    /\ [][(op.name = "run_bulk_operation_query" /\ pc \in PollStates)
            => bulk'.job_id = bulk.job_id]_vars

C14_Witness ==
    /\ op.name = "run_bulk_operation_query"
    /\ Answered("bulkOperationRunQuery", "query_submit")
    /\ g.result.data.userErrors = <<"userError1">>
    /\ ret.outcome = "QueryError"
    /\ ret.payload.errors = <<"userError1">>

\* C15: a bulk call with wait=False returns the id of the submission and
\* makes no poll; with wait=True it polls the id of the submission with the
\* type of the call (QUERY or MUTATION) and returns a reader over the content
\* of the response poll_until_complete returned.
C15_WaitOrJobId ==
    /\ [](BulkCall =>
          /\ \A i \in DOMAIN calls :
                calls[i].name = "currentBulkOperation" => calls[i].type = TypeOf
          /\ ~op.wait =>
                /\ bulk.obs = <<>>
                /\ pc \notin PollStates
                /\ (pc = "done" /\ ret.outcome = "ok") =>
                      /\ ret.value \in JobIds
                      /\ ret.value = g.result.data.id
                      /\ calls[Len(calls)].name \in
                            {"bulkOperationRunQuery", "bulkOperationRunMutation"}
          /\ (op.wait /\ pc = "done" /\ ret.outcome = "ok") =>
                /\ ret.value = [reader |-> bulk.http_response.content]
                /\ bulk.obs # <<>>
                /\ bulk.obs[Len(bulk.obs)] = [id |-> bulk.job_id, status |-> "COMPLETED"]
                /\ bulk.job_type = TypeOf)
    /\ [][(BulkCall /\ pc \in {"query_submit", "mutation_submit"}
                    /\ pc' = "poll_fetch")
            => /\ op.wait
               /\ bulk'.job_id = g.result.data.id
               /\ bulk'.job_type = TypeOf]_vars
    /\ [][(BulkCall /\ pc \in PollStates)
            => /\ bulk'.job_id = bulk.job_id
               /\ bulk'.job_type = bulk.job_type]_vars

C15_Witness ==
    /\ op.name = "run_bulk_operation_mutation"
    /\ op.wait
    /\ pc = "done"
    /\ ret.outcome = "ok"
    /\ bulk.job_id = "gid2"
    /\ bulk.sleeps = 1
    /\ ret.value = [reader |-> "jsonl2"]

\* C16: when stagedUploadsCreate (step 1) or bulkOperationRunMutation
\* (step 4) answers with userErrors, run_bulk_operation_mutation raises
\* ValueError or QueryError carrying those errors; after such an answer of
\* step 1 there is no upload and no bulkOperationRunMutation.
C16_UserErrorsSurface ==
    op.name = "run_bulk_operation_mutation" =>
        /\ (Answered("stagedUploadsCreate", "mutation_stage")
               /\ g.result.data.userErrors # <<>>)
             => /\ pc = "done"
                /\ ret.outcome \in {"ValueError", "QueryError"}
                /\ ret.payload.errors = g.result.data.userErrors
                /\ CallNames \cap {"upload", "bulkOperationRunMutation"} = {}
        /\ (Answered("bulkOperationRunMutation", "mutation_submit")
               /\ g.result.data.userErrors # <<>>)
             => /\ pc = "done"
                /\ ret.outcome \in {"ValueError", "QueryError"}
                /\ ret.payload.errors = g.result.data.userErrors

\* C17: the file run_bulk_operation_mutation uploads, read back line by
\* line, is the caller's rows in the same order and number, each under the
\* key when key is not None and as it is when key is None.
C17_PayloadRoundTrip ==
    \A i \in DOMAIN calls :
        calls[i].name = "upload" =>
            read_all(calls[i].file) =
                [j \in DOMAIN op.rows |->
                    IF op.key.isnone
                    THEN [wrapped |-> FALSE, key |-> "", row |-> op.rows[j]]
                    ELSE [wrapped |-> TRUE, key |-> op.key.name, row |-> op.rows[j]]]

C17_Witness ==
    /\ pc = "mutation_upload"
    /\ calls[Len(calls)].name = "upload"
    /\ op.key.isnone
    /\ op.rows = <<[title |-> <<"LF">>], [title |-> <<>>]>>

\* C18: is_bulk_job_running(job_type) makes one currentBulkOperation query
\* of that type and returns True exactly when the operation it holds is not
\* null and has status CREATED or RUNNING.
C18_RunningIffCreatedOrRunning ==
    (op.name = "is_bulk_job_running" /\ pc = "done" /\ ret.outcome = "ok") =>
        /\ calls = <<Req("currentBulkOperation", 0, op.job_type)>>
        /\ bulk.seen = Fetched
        /\ ret.value = (~Fetched.isnull /\ Fetched.status \in {"CREATED", "RUNNING"})

C18_Witness ==
    /\ op.name = "is_bulk_job_running"
    /\ pc = "done"
    /\ ret.outcome = "ok"
    /\ ret.value = FALSE
    /\ Fetched.status = "CANCELED"

\* C19: when the data of a response holds two connections, only the first
\* in key order is used: the result holds its nodes alone and its pageInfo
\* alone decides whether another page is requested.
C19_FirstConnectionOnly ==
    (/\ Paginated
     /\ ~op.max_limit.set
     /\ remote.layout \in {<<"connection", "other">>, <<"other", "connection">>,
                            <<"parent">>})
    => IF remote.layout[1] \in {"connection", "parent"}
       THEN /\ ret.value = ConcatPages(remote.pages, Len(remote.pages))
            /\ Len(calls) = Len(remote.pages)
       ELSE /\ ret.value = OtherNodes
            /\ Len(calls) = 1

\* C20: when the data of the response holds no connection (scalars, null,
\* objects with scalar members), the pagination ends after that one request
\* with an empty list and without an exception.
C20_NoConnectionEndsEmpty ==
    (/\ op.name = "graphql_call_with_pagination"
     /\ pc = "done"
     /\ \A i \in DOMAIN remote.layout :
           remote.layout[i] \in {"scalar", "null", "object", "object_int"}
     /\ g.outcome = "ok"
     /\ g.result.has_data)
    => /\ ret.outcome = "ok"
       /\ ret.value = <<>>
       /\ Len(calls) = 1

\* of the members of one field of the data, only the first that holds
\* pageInfo is paged through
NestedFirstOnly ==
    (Paginated /\ ~op.max_limit.set /\ remote.layout = <<"parent">>)
    => /\ ret.value = ConcatPages(remote.pages, Len(remote.pages))
       /\ Len(calls) = Len(remote.pages)

\* data of values that are no dict, or of dicts of strings, ends the
\* pagination with an empty list
StringsEndEmpty ==
    (/\ op.name = "graphql_call_with_pagination"
     /\ pc = "done"
     /\ remote.layout \in {<<"scalar", "null">>, <<"object">>}
     /\ g.outcome = "ok"
     /\ g.result.has_data)
    => /\ ret.outcome = "ok"
       /\ ret.value = <<>>
       /\ Len(calls) = 1

\* C24: the first request of graphql_call_with_pagination carries no cursor;
\* every later request carries the endCursor of the response to the request
\* before it, and that response had hasNextPage true.
C24_CursorProtocol ==
    (op.name = "graphql_call_with_pagination"
       /\ remote.layout \in {<<"connection">>, <<"parent">>, <<"vanishing">>})
    => \A j \in DOMAIN calls :
          IF j = 1
          THEN calls[j] = Req("paginated", 0, "")
          ELSE LET before == select_child(FieldOf(remote.layout[1],
                                                  calls[j - 1].cursor))
               IN  /\ before.hasNextPage
                   /\ calls[j] = Req("paginated", before.endCursor, "")

\* the cursor protocol on the shops whose every response holds the connection
CursorProtocolWhenServed ==
    (op.name = "graphql_call_with_pagination"
       /\ remote.layout \in {<<"connection">>, <<"parent">>})
    => \A j \in DOMAIN calls :
          IF j = 1
          THEN calls[j] = Req("paginated", 0, "")
          ELSE LET before == PageAfter(calls[j - 1].cursor)
               IN  /\ before.hasNextPage
                   /\ calls[j] = Req("paginated", before.endCursor, "")

\* C29: the sleep before the n-th retry of a graphql() call is
\* min(max(2^(n-1), 4), 10) seconds: at least 4, at most 10, and never
\* shorter than the sleep before it.
C29_BackoffBounds ==
    \A n \in DOMAIN g.sleeps :
        /\ g.sleeps[n] = (LET e == Pow2(n - 1)
                              floored == IF e > 4 THEN e ELSE 4
                          IN  IF floored < 10 THEN floored ELSE 10)
        /\ g.sleeps[n] >= 4
        /\ g.sleeps[n] <= 10
        /\ n > 1 => g.sleeps[n - 1] <= g.sleeps[n]

C29_Witness ==
    /\ op.name = "graphql"
    /\ g.sleeps = <<4, 4, 4, 8, 10>>

\* C26: the requests of run_bulk_operation_mutation are, in this order,
\* stagedUploadsCreate, the upload to the staged url, bulkOperationRunMutation
\* and the polls; bulkOperationRunMutation follows an upload answered with a
\* 2xx status and names the value of the staged parameter "key"; an upload
\* that fails ends the call with an error of the HTTP layer and no submission.
C26_MutationStepOrder ==
    /\ [](op.name = "run_bulk_operation_mutation" =>
          /\ \A i \in DOMAIN calls :
                CASE calls[i].name = "stagedUploadsCreate" -> i = 1
                  [] calls[i].name = "upload" -> i = 2
                  [] calls[i].name = "bulkOperationRunMutation" ->
                       /\ i = 3
                       /\ bulk.mutations_upload_response.net
                       /\ bulk.mutations_upload_response.status \in 200..299
                       /\ calls[i].stagedUploadPath = bulk.staged_upload_path
                       /\ calls[i].stagedUploadPath \in {"path1", "path2"}
                  [] OTHER -> i > 3
          /\ (pc = "done" /\ Len(calls) = 2) =>
                /\ ~(bulk.mutations_upload_response.net
                       /\ bulk.mutations_upload_response.status \in 200..299)
                /\ ret.outcome \in {"httpx.TransportError", "httpx.HTTPStatusError"})
    /\ [][(op.name = "run_bulk_operation_mutation"
             /\ pc = "mutation_stage" /\ pc' = "mutation_upload")
            => /\ bulk'.staged_upload_path = g.result.data.stagedTargets[1].key
               /\ calls'[2].url = g.result.data.stagedTargets[1].url]_vars
    /\ [][(op.name = "run_bulk_operation_mutation" /\ pc = "mutation_upload")
            => bulk'.staged_upload_path = bulk.staged_upload_path]_vars

C26_Witness ==
    /\ op.name = "run_bulk_operation_mutation"
    /\ pc = "done"
    /\ ret.outcome = "ok"
    /\ Len(calls) = 5
    /\ calls[3].name = "bulkOperationRunMutation"
    /\ calls[3].stagedUploadPath = "path2"
    /\ calls[5].name = "download"

\* C25: while the job that poll_until_complete fetched is the requested one
\* and its status is CREATED or RUNNING, the call goes on polling, however
\* many such observations it has made.
C25_PollsWhileRunning ==
    (/\ op.name = "poll_until_complete"
     /\ Polled
     /\ ~Fetched.isnull /\ Fetched.id = bulk.job_id
     /\ Fetched.status \in {"CREATED", "RUNNING"})
    => pc = "poll_sleep"

\* the attempts of task t's call that failed with a retriable exception
RetriableFailures(t) ==
    {i \in DOMAIN tasks[t].log : tasks[t].log[i] \in RetriableException}

\* C27: at every moment at most one request of a graphql call is in flight,
\* and a request after the first is in flight only when the attempt before it
\* failed with a retriable exception and the backoff sleep after that attempt
\* is over.
C27_AttemptsSequential ==
    \A t \in Tasks :
        /\ tasks[t].in_flight \in {0, 1}
        /\ tasks[t].in_flight = 1 <=> tasks[t].pc = "wait"
        /\ Len(tasks[t].log) = tasks[t].attempts
        /\ (tasks[t].pc = "wait" /\ tasks[t].attempts >= 1) =>
              /\ tasks[t].log[tasks[t].attempts] \in RetriableException
              /\ Len(tasks[t].sleeps) = tasks[t].attempts

C27_Witness ==
    /\ tasks[1].pc = "wait"
    /\ tasks[1].attempts = 2
    /\ tasks[1].log = <<"RetriableException", "ThrottledException">>
    /\ tasks[1].sleeps = <<4, 4>>
    /\ tasks[2].pc = "wait"

\* C28: whatever the two calls do in between, the retries of a call are as
\* many as its own attempts that failed with a retriable exception, its n-th
\* backoff is the wait of attempt n, a step of the other call changes neither,
\* and a new call starts with no attempt and no sleep.
C28_RetryStatePerCall ==
    /\ [](\A t \in Tasks :
            /\ Len(tasks[t].sleeps) =
                  Cardinality(RetriableFailures(t))
                      - (IF tasks[t].pc = "sleep" THEN 1 ELSE 0)
            /\ \A i \in DOMAIN tasks[t].sleeps :
                  tasks[t].sleeps[i] = wait_exponential(i))
    /\ [][\A t \in Tasks :
            /\ (\E u \in Tasks \ {t} : tasks'[u] # tasks[u]) =>
                  /\ tasks'[t].attempts = tasks[t].attempts
                  /\ tasks'[t].sleeps = tasks[t].sleeps
            /\ tasks'[t].calls_made > tasks[t].calls_made =>
                  /\ tasks'[t].attempts = 0
                  /\ tasks'[t].sleeps = <<>>]_vars

C28_Witness ==
    /\ tasks[1].calls_made = 2
    /\ tasks[1].attempts = 1
    /\ tasks[1].sleeps = <<4>>
    /\ tasks[2].calls_made = 1
    /\ tasks[2].attempts = 3
    /\ tasks[2].sleeps = <<4, 4, 4>>

\* the limiter of call c has evaluated what it read, at time wake - delay
Evaluated(c) ==
    sess.callers[c].pc \in {"limiter_sleep", "reset_times", "reset_costs"}

\* C21: with a last recorded cost >= 50 and less than 1000 ms since the last
\* recorded call the limiter answers the positive delay 1000 ms - elapsed;
\* with 1000 ms or more elapsed it answers no delay whatever the cost; with
\* nothing recorded, or a last cost under 50, it answers no delay.
C21_ShouldDelay ==
    \A c \in Callers :
        Evaluated(c) =>
            LET times == sess.callers[c].times
                costs == sess.callers[c].costs
                delay == sess.callers[c].delay
                recorded == times # <<>> /\ costs # <<>>
                elapsed == (sess.callers[c].wake - delay) - Last(times)
            IN  /\ (recorded /\ Last(costs) >= 50 /\ elapsed < 1000) =>
                      (delay > 0 /\ delay = 1000 - elapsed)
                /\ (recorded /\ elapsed >= 1000) => delay = 0
                /\ (~recorded \/ Last(costs) < 50) => delay = 0

C21_Witness ==
    /\ sess.callers[1].pc = "done"
    /\ sess.callers[2].pc = "limiter_sleep"
    /\ sess.callers[2].costs = <<50>>
    /\ sess.callers[2].times = <<500>>
    /\ sess.callers[2].delay = 500

\* the call has recorded this cost
Reported(c) == sess.callers[c].response.cost # NoCost

\* the entries of a store that calls appended
ByCalls(store) == {i \in DOMAIN store : store[i].by # 0}

\* C22 as stated: the reset of every evaluation leaves both stores empty, and
\* when a call that reports a cost completes each store holds exactly the
\* sample of that call.
C22_OneSampleAfterAnyCall ==
    [][\A c \in Callers :
         /\ (sess.callers[c].pc = "reset_costs" /\ sess'.callers[c].pc = "send") =>
               (sess'.time_store = <<>> /\ sess'.cost_store = <<>>)
         /\ (sess.callers[c].pc = "record_cost" /\ sess'.callers[c].pc = "done") =>
               /\ Len(sess'.time_store) = 1 /\ sess'.time_store[1].by = c
               /\ Len(sess'.cost_store) = 1 /\ sess'.cost_store[1].by = c]_vars

\* C22, amended: for a call that no other call on the session overlaps, the
\* reset of its evaluation leaves both stores empty and, when it completes
\* reporting a cost, each store holds exactly its sample, whatever the stores
\* held when it began; and for all calls, overlapping or not, a store that
\* holds only samples of calls holds at most one for each call that recorded.
C22_OneSampleAfterCallAlone ==
    /\ [][\A c \in Callers :
            sess.callers[c].alone =>
              /\ (sess.callers[c].pc = "reset_costs" /\ sess'.callers[c].pc = "send") =>
                    (sess'.time_store = <<>> /\ sess'.cost_store = <<>>)
              /\ (sess.callers[c].pc = "record_cost" /\ sess'.callers[c].pc = "done") =>
                    /\ Len(sess'.time_store) = 1 /\ sess'.time_store[1].by = c
                    /\ Len(sess'.cost_store) = 1 /\ sess'.cost_store[1].by = c
                    /\ sess'.cost_store[1].v = sess.callers[c].response.cost]_vars
    /\ [](/\ Cardinality(ByCalls(sess.time_store)) <=
                Cardinality({c \in Callers :
                    Reported(c) /\ sess.callers[c].pc \in {"record_cost", "done"}})
          /\ Cardinality(ByCalls(sess.cost_store)) <=
                Cardinality({c \in Callers :
                    Reported(c) /\ sess.callers[c].pc = "done"}))

C22_Witness ==
    /\ sess.callers[1].pc = "done" /\ Reported(1)
    /\ sess.callers[2].pc = "done" /\ Reported(2)
    /\ sess.callers[2].alone
    /\ sess.callers[2].retries = 1
    /\ Len(sess.time_store) = 1 /\ sess.time_store[1].by = 2
    /\ Len(sess.cost_store) = 1 /\ sess.cost_store[1].by = 2

\* the retry decision on the last response of call c has been taken
Decided(c) ==
    /\ sess.callers[c].pc \in {"backoff", "record_time", "record_cost", "done"}
    /\ sess.callers[c].response.status # 0

C30_ReadEvaluateResetAtomic ==
    [][/\ sess'.time_store = <<>> =>
            \A i \in ByCalls(sess.time_store) : sess.time_store[i].seen
       /\ sess'.cost_store = <<>> =>
            \A i \in ByCalls(sess.cost_store) : sess.cost_store[i].seen
       /\ \A c \in Callers :
            (/\ sess.callers[c].pc \in {"read_times", "read_costs"}
             /\ sess'.callers[c].pc # sess.callers[c].pc) =>
                \A d \in Callers \ {c} : sess.callers[d].pc # "reset_costs"]_vars

\* the codes of the last response: extensions.code of the entries of errors
\* and of error
ReplyCodes ==
    {g.reply.body.errors[i] : i \in DOMAIN g.reply.body.errors}
        \cup (IF g.reply.body.error # "absent" THEN {g.reply.body.error} ELSE {})

C33_ThrottledTakesPrecedence ==
    /\ (Parsed200 /\ "THROTTLED" \in ReplyCodes /\ ReplyCodes # {"THROTTLED"}) =>
          /\ g.outcome = "ThrottledException"
          /\ g.payload = ErrorPayload(g.reply.body)
          /\ Retrying
    /\ (g.attempts >= 1 /\ g.outcome = "QueryError") =>
          /\ Parsed200
          /\ ReplyCodes # {}
          /\ "THROTTLED" \notin ReplyCodes

C33_Witness ==
    /\ Parsed200
    /\ g.reply.body.errors = <<"OTHER", "THROTTLED">>
    /\ g.reply.body.error = "None"
    /\ g.outcome = "ThrottledException"
    /\ g.pc = "sleep"

\* C34: every round of graphql_call_with_pagination either ends the walk or
\* issues the next request with the endCursor of a connection of that
\* round's response that has a next page; the cursor of an earlier round is
\* never sent again.
C34_CursorOfSameRound ==
    [][(/\ op.name = "graphql_call_with_pagination"
        /\ pc = "page_response" /\ pc' = "page_request") =>
          \E i \in DOMAIN g.result.data.fields :
             LET value == select_child(g.result.data.fields[i])
             IN  /\ value.has_edges
                 /\ value.has_pageInfo /\ value.hasNextPage
                 /\ value.endCursor = cursor']_vars

\* a round passes on to a next request only with a cursor of its own
\* response, on the shops whose every response holds the connection
CursorOfSameRoundWhenServed ==
    [][(/\ op.name = "graphql_call_with_pagination"
        /\ remote.layout # <<"vanishing">>
        /\ pc = "page_response" /\ pc' = "page_request") =>
          \E i \in DOMAIN g.result.data.fields :
             LET value == select_child(g.result.data.fields[i])
             IN  /\ value.has_edges
                 /\ value.has_pageInfo /\ value.hasNextPage
                 /\ value.endCursor = cursor']_vars

\* C36: the variables sent in a round of graphql_call_with_pagination are
\* the caller's variables with at most the key cursor added, and the
\* caller's mapping is at every moment, also after a return or an error, the
\* one that was passed, without a cursor key.
C36_VariablesUnchanged ==
    op.name = "graphql_call_with_pagination" =>
        /\ op.variables = op.given
        /\ op.variables.cursor = 0
        /\ Len(op.sent) = Len(calls)
        /\ \A j \in DOMAIN op.sent :
              /\ op.sent[j].first = op.given.first
              /\ op.sent[j].cursor = calls[j].cursor
              /\ op.sent[j].cursor = 0 => op.sent[j] = op.given

C36_Witness ==
    /\ op.name = "graphql_call_with_pagination"
    /\ pc = "done"
    /\ ret.outcome = "QueryError"
    /\ op.given = [first |-> 2, cursor |-> 0]
    /\ op.sent = <<[first |-> 2, cursor |-> 0], [first |-> 2, cursor |-> 1]>>
    /\ op.variables = [first |-> 2, cursor |-> 0]

\* C37: when the field of the data is an object with a member that carries
\* pageInfo, every round takes the nodes from that member's edges and the
\* next cursor from its pageInfo: with max_limit=None the call returns the
\* nodes of all its pages after one request per page.
C37_NestedConnectionWalk ==
    (/\ op.name = "graphql_call_with_pagination"
     /\ pc = "done"
     /\ ~op.max_limit.set
     /\ remote.layout \in {<<"parent">>, <<"parent_int">>}
     /\ g.outcome = "ok"
     /\ g.result.has_data)
    => /\ ret.outcome = "ok"
       /\ ret.value = ConcatPages(remote.pages, Len(remote.pages))
       /\ Len(calls) = Len(remote.pages)

----------------------------------------------------------------------------
\* Claims about Options.version

\* the form the error message of the setter names: YYYY-MM, or unstable
WellFormed(value) ==
    \/ /\ Len(value) = 7
       /\ \A i \in {1, 2, 3, 4, 6, 7} : value[i] \in Digits
       /\ value[5] = "-"
    \/ value = unstable

\* C38: the version setter accepts a value exactly when it is of the form
\* YYYY-MM or the string unstable; for every other value it raises
\* ValueError and leaves the configured version unchanged
C38_VersionSetterExact ==
    [][LET value == opts'.value
       IN  IF WellFormed(value)
           THEN opts'.outcome = "ok" /\ opts'._version = value
           ELSE opts'.outcome = "ValueError" /\ opts'._version = opts._version]_vars

\* what the setter does: it accepts a value exactly when the value begins
\* with YYYY-MM or with unstable, whatever follows
VersionSetterPrefix ==
    [][LET value == opts'.value
           begins == \E n \in 0..Len(value) : WellFormed(SubSeq(value, 1, n))
       IN  IF begins
           THEN opts'.outcome = "ok" /\ opts'._version = value
           ELSE opts'.outcome = "ValueError" /\ opts'._version = opts._version]_vars

----------------------------------------------------------------------------
\* Claims about concurrent run_bulk_operation_query calls

\* C35: of two run_bulk_operation_query calls that run concurrently, the
\* bulkOperationRunQuery mutation is issued only while no QUERY job is
\* CREATED or RUNNING, and a call that finds the job of the other one fails
\* with BulkQueryInProgress
C35_CheckThenSubmitAtomic ==
    \A c \in Runners :
        /\ runs.callers[c].submitted => ~runs.callers[c].active_at_submit
        /\ runs.callers[c].outcome # "QueryError"

\* C35, as the code has it: a call issues the mutation only after its own
\* check was answered with no CREATED or RUNNING job, and fails with
\* BulkQueryInProgress, without issuing it, when the answer held one; a
\* mutation issued while a job is active ends in QueryError
C35_SubmitAfterOwnCheck ==
    \A c \in Runners :
        LET me == runs.callers[c]
        IN  /\ me.submitted =>
                 /\ me.checked
                 /\ me.seen.isnull \/ me.seen.status \notin {"CREATED", "RUNNING"}
            /\ (me.checked /\ ~me.seen.isnull /\ me.seen.status \in {"CREATED", "RUNNING"})
                 => /\ me.pc = "done"
                    /\ me.outcome = "BulkQueryInProgress"
                    /\ ~me.submitted
            /\ me.outcome = "BulkQueryInProgress" => ~me.submitted
            /\ (me.pc = "done" /\ me.submitted /\ me.active_at_submit)
                 => me.outcome = "QueryError"
            /\ me.outcome = "QueryError" => me.active_at_submit

\* both calls passed the check and issued the mutation; the shop refused
\* the second one
C35_Witness ==
    /\ runs.callers[1].submitted /\ ~runs.callers[1].active_at_submit
    /\ runs.callers[2].submitted /\ runs.callers[2].active_at_submit
    /\ runs.callers[2].outcome = "QueryError"
    /\ runs.callers[1].seen.isnull /\ runs.callers[2].seen.isnull

\* C31: while one call waits in the backoff sleep of the retry or in the
\* sleep of one second between two polls, another call on the same client
\* can send its request and can take its reply
C31_SleepDoesNotStall ==
    \A a \in Runners : \A b \in Runners \ {a} :
        Sleeping(a) =>
            /\ runs.callers[b].pc = "absent" => ENABLED RunCall(b)
            /\ runs.callers[b].pc = "send" => ENABLED RunSend(b)
            /\ runs.callers[b].pc = "wait" => ENABLED RunReceive(b)

\* call 2 sent a request and took its reply within one backoff sleep of
\* call 1, and another one within one poll sleep of call 1, and is done
C31_Witness ==
    /\ runs.callers[2].overlapped = {"backoff", "poll_sleep"}
    /\ runs.callers[2].pc = "done"
    /\ Sleeping(1)

====
